---- MODULE Spec2Model ----
(***************************************************************************)
(* Session compilation of src/src/core/workflow_generator.py:              *)
(* a recorded session of events is simplified (typing runs are merged),    *)
(* every simplified event is turned into a workflow step, and wait steps   *)
(* are inserted where the timestamps of the correlated events are far      *)
(* apart.  The generative entry point takes its steps from the JSON of a   *)
(* response instead and repairs empty text selectors before the wait       *)
(* steps are inserted.  src/src/tools/format_converter.py turns a          *)
(* recording of the friend format into the session.                        *)
(*                                                                         *)
(* Representation.                                                         *)
(*   - A Python str on which the code does character work (lower,          *)
(*     replace, strip, "in") is a sequence of one-character strings.       *)
(*   - A Python dict is a function whose DOMAIN is the set of its keys.    *)
(*   - d.get(k) is an option: <<>> for None, <<v>> for the value v.        *)
(*   - A timestamp is a number of centiseconds; the sessions enumerated    *)
(*     below only use even numbers, so that rounding to one decimal never  *)
(*     meets a tie and is independent of the float representation.         *)
(***************************************************************************)
EXTENDS Integers, Sequences, FiniteSets, TLC

(***************************************************************************)
(* Python string primitives                                                *)
(***************************************************************************)

LowerChar(c) ==
    CASE c = "A" -> "a" [] c = "B" -> "b" [] c = "C" -> "c" [] c = "D" -> "d"
      [] c = "E" -> "e" [] c = "F" -> "f" [] c = "G" -> "g" [] c = "H" -> "h"
      [] c = "I" -> "i" [] c = "J" -> "j" [] c = "K" -> "k" [] c = "L" -> "l"
      [] c = "M" -> "m" [] c = "N" -> "n" [] c = "O" -> "o" [] c = "P" -> "p"
      [] c = "Q" -> "q" [] c = "R" -> "r" [] c = "S" -> "s" [] c = "T" -> "t"
      [] c = "U" -> "u" [] c = "V" -> "v" [] c = "W" -> "w" [] c = "X" -> "x"
      [] c = "Y" -> "y" [] c = "Z" -> "z" [] OTHER -> c

\* str.lower()
Lower(s) == [i \in 1..Len(s) |-> LowerChar(s[i])]

\* sub in s
Contains(sub, s) ==
    \E i \in 0..(Len(s) - Len(sub)) : SubSeq(s, i + 1, i + Len(sub)) = sub

\* s.startswith(p)
StartsWith(s, p) == Len(p) <= Len(s) /\ SubSeq(s, 1, Len(p)) = p

\* s.replace(old, new) for a non-empty old: leftmost non-overlapping occurrences
RECURSIVE Replace(_, _, _)
Replace(s, old, new) ==
    IF Len(s) < Len(old) THEN s
    ELSE IF SubSeq(s, 1, Len(old)) = old
         THEN new \o Replace(SubSeq(s, Len(old) + 1, Len(s)), old, new)
         ELSE <<s[1]>> \o Replace(Tail(s), old, new)

\* s.strip(): the only whitespace character of the modelled alphabet is " "
RECURSIVE LStrip(_)
LStrip(s) == IF s # <<>> /\ s[1] = " " THEN LStrip(Tail(s)) ELSE s

RECURSIVE RStrip(_)
RStrip(s) ==
    IF s # <<>> /\ s[Len(s)] = " " THEN RStrip(SubSeq(s, 1, Len(s) - 1)) ELSE s

Strip(s) == RStrip(LStrip(s))

\* "".join(parts)
RECURSIVE JoinEmpty(_)
JoinEmpty(parts) ==
    IF parts = <<>> THEN <<>> ELSE Head(parts) \o JoinEmpty(Tail(parts))

\* " ".join(parts)
RECURSIVE JoinSpace(_)
JoinSpace(parts) ==
    IF parts = <<>> THEN <<>>
    ELSE IF Len(parts) = 1 THEN Head(parts)
    ELSE Head(parts) \o <<" ">> \o JoinSpace(Tail(parts))

(***************************************************************************)
(* Python dict primitives                                                  *)
(***************************************************************************)

\* the value None stored under a key of a dict
None == <<"None">>

\* {}
EmptyDict == [k \in {} |-> None]

\* the keys whose value can be None: a merged text entry copies them with
\* data.get(...) from its first fragment (lines 354-356)
NullableKeys == {"element_name", "element_type", "automation_id"}

\* d.get(k): <<>> when the key is missing or holds None, else <<value>>
Get(d, k) ==
    IF k \notin DOMAIN d THEN <<>>
    ELSE IF k \in NullableKeys /\ d[k] = None THEN <<>>
    ELSE <<d[k]>>

\* d.get(k, default): the default only replaces a missing key
GetOr(d, k, default) == IF k \in DOMAIN d THEN d[k] ELSE default

\* truth value of a str-or-None
Truthy(v) == v # None /\ v # <<>>

(***************************************************************************)
(* Event model: EventType of src.models.events and the strings the         *)
(* sessions below are made of                                              *)
(***************************************************************************)

MOUSE_CLICK        == "MOUSE_CLICK"
MOUSE_DOUBLE_CLICK == "MOUSE_DOUBLE_CLICK"
MOUSE_DRAG         == "MOUSE_DRAG"
SCROLL             == "SCROLL"
TEXT_INPUT         == "TEXT_INPUT"
KEY_PRESS          == "KEY_PRESS"
KEY_COMBINATION    == "KEY_COMBINATION"
NAVIGATION         == "NAVIGATION"
SCREENSHOT         == "SCREENSHOT"

s_space     == <<"s", "p", "a", "c", "e">>
s_Key_dot   == <<"K", "e", "y", ".">>
s_backspace == <<"b", "a", "c", "k", "s", "p", "a", "c", "e">>
s_enter     == <<"e", "n", "t", "e", "r">>
s_Key_enter == <<"K", "e", "y", ".", "e", "n", "t", "e", "r">>
s_Search    == <<"S", "e", "a", "r", "c", "h">>
s_search    == <<"s", "e", "a", "r", "c", "h">>
s_address   == <<"a", "d", "d", "r", "e", "s", "s">>

\* EventLog(timestamp, event_type, data)
EventLog(ts, kind, d) == [timestamp |-> ts, event_type |-> kind, data |-> d]

(***************************************************************************)
(* Event simplifier                                                        *)
(***************************************************************************)

\* lines 326-344: the inner loop of group_typing_sequences from position j
\* (0-based, as in the source); yields the final j and text_parts
RECURSIVE CollectRun(_, _, _)
CollectRun(events, j, text_parts) ==
    IF j < Len(events) /\ events[j + 1].event_type = TEXT_INPUT
    THEN LET parts1 == Append(text_parts, GetOr(events[j + 1].data, "text", <<>>))
             j1     == j + 1
         IN IF j1 < Len(events) /\ events[j1 + 1].event_type = KEY_PRESS
            THEN LET key == GetOr(events[j1 + 1].data, "key", <<>>)
                 IN IF Contains(s_space, Lower(key))
                    THEN CollectRun(events, j1 + 1, Append(parts1, <<" ">>))
                    ELSE [j |-> j1, text_parts |-> parts1]
            ELSE [j |-> j1, text_parts |-> parts1]
    ELSE [j |-> j, text_parts |-> text_parts]

\* CombinedEvent with grouped_from counting the text fragments only
CombinedEvent_CountFragments(events, i, j, text_parts) ==
    LET first == events[i + 1]
        field(k) == IF Get(first.data, k) = <<>> THEN None ELSE first.data[k]
    IN EventLog(first.timestamp, TEXT_INPUT,
                [text         |-> Strip(JoinEmpty(text_parts)),
                 element_name |-> field("element_name"),
                 element_type |-> field("element_type"),
                 automation_id |-> field("automation_id"),
                 grouped_from |-> (j - i + 1) \div 2])

\* lines 349-360: the combined event of the run events[i+1 .. j]
CombinedEvent(events, i, j, text_parts) ==
    LET first == events[i + 1]
        field(k) == IF Get(first.data, k) = <<>> THEN None ELSE first.data[k]
    IN EventLog(first.timestamp, TEXT_INPUT,
                [text         |-> Strip(JoinEmpty(text_parts)),
                 element_name |-> field("element_name"),
                 element_type |-> field("element_type"),
                 automation_id |-> field("automation_id"),
                 grouped_from |-> j - i])

\* lines 316-371: the outer loop of group_typing_sequences from position i
RECURSIVE GroupFrom(_, _, _)
GroupFrom(events, i, grouped) ==
    IF i >= Len(events) THEN grouped
    ELSE IF events[i + 1].event_type = TEXT_INPUT
         THEN LET run == CollectRun(events, i, <<>>)
              IN IF run.j > i + 1
                 THEN GroupFrom(events, run.j,
                        Append(grouped, CombinedEvent(events, i, run.j, run.text_parts)))
                 ELSE GroupFrom(events, i + 1, Append(grouped, events[i + 1]))
         ELSE GroupFrom(events, i + 1, Append(grouped, events[i + 1]))

group_typing_sequences(events) == GroupFrom(events, 0, <<>>)

\* lines 301-311
simplify_actions(events) == group_typing_sequences(events)

(***************************************************************************)
(* Workflow model: ActionType, Selector and WorkflowStep of                *)
(* src.models.workflow as the generator builds them                        *)
(***************************************************************************)

CLICK      == "CLICK"
RIGHT_CLICK == "RIGHT_CLICK"
DOUBLE_CLICK == "DOUBLE_CLICK"
TYPE_TEXT  == "TYPE_TEXT"
PRESS_KEY  == "PRESS_KEY"
KEY_COMBO  == "KEY_COMBINATION"
SCROLL_ACT == "SCROLL"
DRAG       == "DRAG"
WAIT       == "WAIT"
NAVIGATE   == "NAVIGATE"

\* A selector value is a str or a dict: the str v is held as StrValue(v), so
\* that isinstance(value, dict) is "str" \notin DOMAIN value
StrValue(v) == [str |-> v]
IsDict(value) == "str" \notin DOMAIN value

\* Selector(type, value, fallback): fallback is <<>> (None) or <<selector>>
Selector(type, value, fallback) ==
    [type |-> type, value |-> value, fallback |-> fallback]

\* An f-string: its template, the strings and the numbers put into it
Desc(tpl, strs, nums) == [tpl |-> tpl, strs |-> strs, nums |-> nums]

\* f"step-{step_num}"
StepId(step_num) == <<"step", step_num>>

\* f"{step.step_id}-wait"
WaitId(step_id) == Append(step_id, "wait")

\* WorkflowStep(...): description and selector are <<>> (None) or <<value>>
WorkflowStep(step_id, action, description, selector, parameters) ==
    [step_id |-> step_id, action |-> action, description |-> description,
     selector |-> selector, parameters |-> parameters]

\* WorkflowStep(...) rejects a step without a description at construction
StepIsValid(step) == step.description # <<>>

(***************************************************************************)
(* Step synthesizer                                                        *)
(***************************************************************************)

\* _create_selector without the coordinates behind a text selector
_create_selector_NoFallback(element_name, element_type, data) ==
    LET x == GetOr(data, "x", 0)
        y == GetOr(data, "y", 0)
    IN IF Truthy(element_name)
       THEN Selector("text", StrValue(element_name), <<>>)
       ELSE Selector("coordinates", [x |-> x, y |-> y], <<>>)

\* lines 694-716
_create_selector(element_name, element_type, data) ==
    LET x == GetOr(data, "x", 0)
        y == GetOr(data, "y", 0)
    IN IF Truthy(element_name)
       THEN Selector("text", StrValue(element_name),
                     <<Selector("coordinates", [x |-> x, y |-> y], <<>>)>>)
       ELSE Selector("coordinates", [x |-> x, y |-> y], <<>>)

s_Button    == <<"B", "u", "t", "t", "o", "n">>
s_Hyperlink == <<"H", "y", "p", "e", "r", "l", "i", "n", "k">>
s_ListItem  == <<"L", "i", "s", "t", "I", "t", "e", "m">>
s_Edit      == <<"E", "d", "i", "t">>
s_ComboBox  == <<"C", "o", "m", "b", "o", "B", "o", "x">>

\* lines 652-692: <<>> where the function falls off its end and returns None
_generate_description(action, element_name, element_type, data) ==
    LET verb == IF action = RIGHT_CLICK THEN "Right-click" ELSE "Click"
    IN IF Truthy(element_name)
       THEN IF Contains(s_search, Lower(element_name))
               \/ Contains(s_address, Lower(element_name))
            THEN IF action = CLICK
                 THEN <<Desc("Click on search/address bar: '{}'", <<element_name>>, <<>>)>>
                 ELSE IF action = RIGHT_CLICK
                 THEN <<Desc("Right-click on '{}'", <<element_name>>, <<>>)>>
                 ELSE <<>>
            ELSE IF element_type = s_Button
            THEN <<Desc(verb \o " the '{}' button", <<element_name>>, <<>>)>>
            ELSE IF element_type = s_Hyperlink
            THEN <<Desc(verb \o " on '{}' link", <<element_name>>, <<>>)>>
            ELSE IF element_type = s_ListItem
            THEN <<Desc("Select '{}' from menu", <<element_name>>, <<>>)>>
            ELSE IF element_type = s_Edit \/ element_type = s_ComboBox
            THEN <<Desc(verb \o " on '{}' input field", <<element_name>>, <<>>)>>
            ELSE <<Desc(verb \o " on '{}'", <<element_name>>, <<>>)>>
       ELSE <<Desc(verb \o " at coordinates ({}, {})", <<>>,
                   <<GetOr(data, "x", 0), GetOr(data, "y", 0)>>)>>

UpperChar(c) ==
    CASE c = "a" -> "A" [] c = "b" -> "B" [] c = "c" -> "C" [] c = "d" -> "D"
      [] c = "e" -> "E" [] c = "f" -> "F" [] c = "g" -> "G" [] c = "h" -> "H"
      [] c = "i" -> "I" [] c = "j" -> "J" [] c = "k" -> "K" [] c = "l" -> "L"
      [] c = "m" -> "M" [] c = "n" -> "N" [] c = "o" -> "O" [] c = "p" -> "P"
      [] c = "q" -> "Q" [] c = "r" -> "R" [] c = "s" -> "S" [] c = "t" -> "T"
      [] c = "u" -> "U" [] c = "v" -> "V" [] c = "w" -> "W" [] c = "x" -> "X"
      [] c = "y" -> "Y" [] c = "z" -> "Z" [] OTHER -> c

\* str.upper()
Upper(s) == [i \in 1..Len(s) |-> UpperChar(s[i])]

\* str.capitalize()
Capitalize(s) ==
    [i \in 1..Len(s) |-> IF i = 1 THEN UpperChar(s[i]) ELSE LowerChar(s[i])]

s_esc    == <<"e", "s", "c">>
s_escape == <<"e", "s", "c", "a", "p", "e">>
s_tab    == <<"t", "a", "b">>
s_delete == <<"d", "e", "l", "e", "t", "e">>
s_up     == <<"u", "p">>
s_down   == <<"d", "o", "w", "n">>
s_left   == <<"l", "e", "f", "t">>
s_right  == <<"r", "i", "g", "h", "t">>

\* lines 718-733
_format_key_name(key) ==
    LET k == Lower(key)
    IN CASE k = s_enter     -> Capitalize(s_enter)
         [] k = s_esc       -> Capitalize(s_escape)
         [] k = s_escape    -> Capitalize(s_escape)
         [] k = s_space     -> Capitalize(s_space)
         [] k = s_tab       -> Capitalize(s_tab)
         [] k = s_backspace -> Capitalize(s_backspace)
         [] k = s_delete    -> Capitalize(s_delete)
         [] k = s_up        -> <<"↑">>
         [] k = s_down      -> <<"↓">>
         [] k = s_left      -> <<"←">>
         [] k = s_right     -> <<"→">>
         [] OTHER           -> Capitalize(key)

s_ctrl   == <<"c", "t", "r", "l">>
s_ctrl_l == <<"c", "t", "r", "l", "_", "l">>
s_alt    == <<"a", "l", "t">>
s_shift  == <<"s", "h", "i", "f", "t">>
s_c      == <<"c">>
s_v      == <<"v">>
\* the six characters '\x03' and '\x16': how the recorder spells Ctrl+C, Ctrl+V
s_x03    == <<"'", "\\", "x", "0", "3", "'">>
s_x16    == <<"'", "\\", "x", "1", "6", "'">>
s_Ctrl   == <<"C", "t", "r", "l">>
s_Alt    == <<"A", "l", "t">>
s_Shift  == <<"S", "h", "i", "f", "t">>
s_C      == <<"C">>
s_V      == <<"V">>

\* lines 739-753: the readable name of one key of a combination
KeyPart(key) ==
    LET key_str == Lower(key)
    IN IF Contains(s_ctrl, key_str) THEN s_Ctrl
       ELSE IF Contains(s_alt, key_str) THEN s_Alt
       ELSE IF Contains(s_shift, key_str) THEN s_Shift
       ELSE IF Contains(s_x03, key_str) \/ Contains(s_c, key_str) THEN s_C
       ELSE IF Contains(s_x16, key_str) \/ Contains(s_v, key_str) THEN s_V
       ELSE Upper(Replace(key_str, <<"'">>, <<>>))

\* lines 735-755: the parts that "+".join puts together
_parse_key_combination(keys) == [i \in 1..Len(keys) |-> KeyPart(keys[i])]

\* s[:50]
Preview(s) == SubSeq(s, 1, IF Len(s) < 50 THEN Len(s) ELSE 50)

\* lines 445-446: element_name and element_type of the event
ElementName(data) == GetOr(data, "element_name", <<>>)
ElementType(data) == GetOr(data, "element_type", <<>>)

\* lines 449-468
ClickStep(data, step_num) ==
    LET button == GetOr(data, "button", "left")
        action == IF button = "right" THEN RIGHT_CLICK ELSE CLICK
    IN WorkflowStep(StepId(step_num), action,
            _generate_description(action, ElementName(data), ElementType(data), data),
            <<_create_selector(ElementName(data), ElementType(data), data)>>,
            IF button # "left" THEN [button |-> button] ELSE EmptyDict)

\* lines 470-482
DoubleClickStep(data, step_num) ==
    WorkflowStep(StepId(step_num), DOUBLE_CLICK,
        _generate_description(DOUBLE_CLICK, ElementName(data), ElementType(data), data),
        <<_create_selector(ElementName(data), ElementType(data), data)>>,
        EmptyDict)

\* DragStep with the end coordinates left to the selector alone
DragStep_NoEndParameters(data, step_num) ==
    LET start_x == GetOr(data, "start_x", 0)
        start_y == GetOr(data, "start_y", 0)
        end_x   == GetOr(data, "end_x", 0)
        end_y   == GetOr(data, "end_y", 0)
    IN WorkflowStep(StepId(step_num), DRAG,
            <<Desc("Drag from ({}, {}) to ({}, {})", <<>>,
                   <<start_x, start_y, end_x, end_y>>)>>,
            <<Selector("coordinates",
                       [start_x |-> start_x, start_y |-> start_y,
                        end_x |-> end_x, end_y |-> end_y], <<>>)>>,
            EmptyDict)

\* lines 484-513
DragStep(data, step_num) ==
    LET start_x == GetOr(data, "start_x", 0)
        start_y == GetOr(data, "start_y", 0)
        end_x   == GetOr(data, "end_x", 0)
        end_y   == GetOr(data, "end_y", 0)
        tpl     == IF GetOr(data, "user_intent", "") = "select_text_for_copy"
                   THEN "Select text by dragging from ({}, {}) to ({}, {})"
                   ELSE "Drag from ({}, {}) to ({}, {})"
    IN WorkflowStep(StepId(step_num), DRAG,
            <<Desc(tpl, <<>>, <<start_x, start_y, end_x, end_y>>)>>,
            <<Selector("coordinates",
                       [start_x |-> start_x, start_y |-> start_y,
                        end_x |-> end_x, end_y |-> end_y], <<>>)>>,
            [end_x |-> end_x, end_y |-> end_y])

\* lines 515-536
TextInputStep(data, step_num) ==
    LET text          == GetOr(data, "text", <<>>)
        grouped_count == GetOr(data, "grouped_from", 0)
        element_name  == ElementName(data)
        tpl           == IF grouped_count > 1
                         THEN "Type complete text: '{}'" ELSE "Type '{}'"
        description   == IF Truthy(element_name)
                         THEN Desc(tpl \o " into '{}'", <<text, element_name>>, <<>>)
                         ELSE Desc(tpl, <<text>>, <<>>)
        selector      == IF Truthy(element_name)
                         THEN <<_create_selector(element_name, ElementType(data), data)>>
                         ELSE <<>>
    IN WorkflowStep(StepId(step_num), TYPE_TEXT, <<description>>, selector,
                    [text |-> text])

\* lines 538-557
KeyPressStep(data, step_num) ==
    LET key         == GetOr(data, "key", <<>>)
        key_clean   == Lower(Replace(key, s_Key_dot, <<>>))
        key_display == _format_key_name(key_clean)
        tpl         == IF GetOr(data, "user_intent", "") = "submit_input"
                       THEN "Submit by pressing {}" ELSE "Press {} key"
    IN WorkflowStep(StepId(step_num), PRESS_KEY,
                    <<Desc(tpl, <<key_display>>, <<>>)>>, <<>>,
                    [key |-> key_clean])

\* lines 559-612
KeyCombinationStep(data, step_num) ==
    LET keys              == GetOr(data, "keys", <<>>)
        user_intent       == GetOr(data, "user_intent", "")
        clipboard_content == GetOr(data, "clipboard_content", <<>>)
        content_preview   == Preview(Strip(clipboard_content))
    IN IF user_intent = "copy_to_clipboard" THEN
           WorkflowStep(StepId(step_num), KEY_COMBO,
                <<IF content_preview # <<>>
                  THEN Desc("Copy text to clipboard: '{}'", <<content_preview>>, <<>>)
                  ELSE Desc("Copy selected text to clipboard (Ctrl+C)", <<>>, <<>>)>>,
                <<>>,
                [keys |-> <<s_Ctrl, s_C>>, clipboard_content |-> clipboard_content])
       ELSE IF user_intent = "paste_from_clipboard" THEN
           WorkflowStep(StepId(step_num), KEY_COMBO,
                <<IF content_preview # <<>>
                  THEN Desc("Paste text from clipboard: '{}'", <<content_preview>>, <<>>)
                  ELSE Desc("Paste from clipboard (Ctrl+V)", <<>>, <<>>)>>,
                <<>>,
                [keys |-> <<s_Ctrl, s_V>>, clipboard_content |-> clipboard_content])
       ELSE
           WorkflowStep(StepId(step_num), KEY_COMBO,
                <<Desc("Press {}", _parse_key_combination(keys), <<>>)>>,
                <<>>,
                [keys |-> keys])

\* ScrollStep with the coordinates dropped, as for a keyboard step
ScrollStep_NoSelector(data, step_num) ==
    LET delta_y == GetOr(data, "delta_y", 0)
    IN WorkflowStep(StepId(step_num), SCROLL_ACT,
            <<Desc(IF delta_y > 0 THEN "Scroll down" ELSE "Scroll up", <<>>, <<>>)>>,
            <<>>,
            [delta_x |-> GetOr(data, "delta_x", 0), delta_y |-> delta_y])

\* lines 614-630
ScrollStep(data, step_num) ==
    LET delta_y == GetOr(data, "delta_y", 0)
    IN WorkflowStep(StepId(step_num), SCROLL_ACT,
            <<Desc(IF delta_y > 0 THEN "Scroll down" ELSE "Scroll up", <<>>, <<>>)>>,
            <<Selector("coordinates",
                       [x |-> GetOr(data, "x", 0), y |-> GetOr(data, "y", 0)], <<>>)>>,
            [delta_x |-> GetOr(data, "delta_x", 0), delta_y |-> delta_y])

\* lines 632-640
NavigationStep(data, step_num) ==
    LET url == GetOr(data, "url", "")
    IN WorkflowStep(StepId(step_num), NAVIGATE,
            <<Desc("Navigate to " \o url, <<>>, <<>>)>>, <<>>, [url |-> url])

\* lines 438-646: <<>> when no step is produced, else <<step>>
_event_to_step(event, step_num) ==
    LET event_type == event.event_type
        data       == event.data
    IN CASE event_type = MOUSE_CLICK        -> <<ClickStep(data, step_num)>>
         [] event_type = MOUSE_DOUBLE_CLICK -> <<DoubleClickStep(data, step_num)>>
         [] event_type = MOUSE_DRAG         -> <<DragStep(data, step_num)>>
         [] event_type = TEXT_INPUT         -> <<TextInputStep(data, step_num)>>
         [] event_type = KEY_PRESS          -> <<KeyPressStep(data, step_num)>>
         [] event_type = KEY_COMBINATION    -> <<KeyCombinationStep(data, step_num)>>
         [] event_type = SCROLL             -> <<ScrollStep(data, step_num)>>
         [] event_type = NAVIGATION         -> <<NavigationStep(data, step_num)>>
         [] OTHER                           -> <<>>

\* StepsFrom with step_counter advanced for every event, step or not
RECURSIVE StepsFrom_CountEveryEvent(_, _, _)
StepsFrom_CountEveryEvent(events, k, step_counter) ==
    IF k > Len(events) THEN <<>>
    ELSE _event_to_step(events[k], step_counter)
           \o StepsFrom_CountEveryEvent(events, k + 1, step_counter + 1)

\* lines 56-63: the loop of generate_from_events_only over events[k..], with
\* step_counter as it stands before events[k]
RECURSIVE StepsFrom(_, _, _)
StepsFrom(events, k, step_counter) ==
    IF k > Len(events) THEN <<>>
    ELSE LET step == _event_to_step(events[k], step_counter)
         IN IF step # <<>>
            THEN step \o StepsFrom(events, k + 1, step_counter + 1)
            ELSE StepsFrom(events, k + 1, step_counter)

(***************************************************************************)
(* Event-step correlator                                                   *)
(***************************************************************************)

\* [str(k).lower() for k in keys], then " ".join(...)
JoinedLower(keys) == JoinSpace([i \in 1..Len(keys) |-> Lower(keys[i])])

\* lines 174-243: the test the loop of _find_step_event makes on one event
KindMatch(step, event) ==
    LET data == event.data
        hasFallbackDict ==
            /\ step.selector # <<>>
            /\ step.selector[1].fallback # <<>>
            /\ IsDict(step.selector[1].fallback[1].value)
        hasValueDict == step.selector # <<>> /\ IsDict(step.selector[1].value)
    IN
    IF step.action \in {CLICK, RIGHT_CLICK, DOUBLE_CLICK} THEN
        /\ event.event_type = MOUSE_CLICK
        /\ hasFallbackDict
        /\ LET coords == step.selector[1].fallback[1].value
           IN /\ Get(data, "x") = Get(coords, "x")
              /\ Get(data, "y") = Get(coords, "y")
    ELSE IF step.action = TYPE_TEXT THEN
        /\ event.event_type = TEXT_INPUT
        /\ Get(data, "text") = Get(step.parameters, "text")
    ELSE IF step.action = PRESS_KEY THEN
        /\ event.event_type = KEY_PRESS
        /\ Lower(Replace(GetOr(data, "key", <<>>), s_Key_dot, <<>>))
             = Lower(GetOr(step.parameters, "key", <<>>))
    ELSE IF step.action = KEY_COMBO THEN
        /\ event.event_type = KEY_COMBINATION
        /\ LET event_keys == JoinedLower(GetOr(data, "keys", <<>>))
               step_keys  == JoinedLower(GetOr(step.parameters, "keys", <<>>))
           IN \/ /\ Contains(s_ctrl, step_keys) /\ Contains(s_c, step_keys)
                 /\ Contains(s_ctrl, event_keys) \/ Contains(s_ctrl_l, event_keys)
                 /\ Contains(s_c, event_keys) \/ Contains(s_x03, event_keys)
              \/ /\ Contains(s_ctrl, step_keys) /\ Contains(s_v, step_keys)
                 /\ Contains(s_ctrl, event_keys) \/ Contains(s_ctrl_l, event_keys)
                 /\ Contains(s_v, event_keys) \/ Contains(s_x16, event_keys)
    ELSE IF step.action = DRAG THEN
        /\ event.event_type = MOUSE_DRAG
        /\ \/ /\ hasValueDict
              /\ Get(data, "start_x") = Get(step.selector[1].value, "start_x")
              /\ Get(data, "start_y") = Get(step.selector[1].value, "start_y")
           \/ /\ Get(data, "start_x") = Get(step.parameters, "start_x")
              /\ Get(data, "start_y") = Get(step.parameters, "start_y")
           \/ /\ hasFallbackDict
              /\ Get(data, "start_x") = Get(step.selector[1].fallback[1].value, "x")
              /\ Get(data, "start_y") = Get(step.selector[1].fallback[1].value, "y")
    ELSE IF step.action = SCROLL_ACT THEN
        /\ event.event_type = SCROLL
        /\ hasValueDict
        /\ Get(data, "x") = Get(step.selector[1].value, "x")
        /\ Get(data, "y") = Get(step.selector[1].value, "y")
    ELSE FALSE

\* _find_step_event that tries the event at the step's index first
_find_step_event_PositionFirst(step, events, step_index) ==
    LET hits == {k \in 1..Len(events) : KindMatch(step, events[k])}
    IN IF step_index < Len(events)
       THEN <<events[step_index + 1]>>
       ELSE IF hits # {}
       THEN <<events[CHOOSE k \in hits : \A h \in hits : k <= h]>>
       ELSE <<>>

\* lines 164-250: <<>> for None, else <<event>>; step_index is 0-based
_find_step_event(step, events, step_index) ==
    LET hits == {k \in 1..Len(events) : KindMatch(step, events[k])}
    IN IF hits # {}
       THEN <<events[CHOOSE k \in hits : \A h \in hits : k <= h]>>
       ELSE IF step_index < Len(events)
       THEN <<events[step_index + 1]>>
       ELSE <<>>

(***************************************************************************)
(* Wait-reason classifier                                                  *)
(***************************************************************************)

s_button == <<"b", "u", "t", "t", "o", "n">>
s_link   == <<"l", "i", "n", "k">>
s_window == <<"w", "i", "n", "d", "o", "w">>

\* what _infer_wait_reason gives where .lower() is called on None (lines 257,
\* 274, 276): the AttributeError that ends the call
AttributeError == "AttributeError"

\* _infer_wait_reason with the search/address rule ahead of the Enter rule
_infer_wait_reason_SearchFirst(current_event, next_event) ==
    LET data         == current_event.data
        kind         == current_event.event_type
        element_name == GetOr(data, "element_name", <<>>)
        element_type == GetOr(data, "element_type", <<>>)
        current_desc == Lower(element_name)
        keys         == GetOr(data, "keys", <<>>)
    IN IF element_name = None THEN AttributeError
       ELSE IF Contains(s_search, current_desc) \/ Contains(s_address, current_desc)
       THEN "search results to load"
       ELSE IF kind = KEY_PRESS /\ Contains(s_enter, Lower(GetOr(data, "key", <<>>)))
       THEN "page load and navigation"
       ELSE IF kind = MOUSE_CLICK
       THEN IF Contains(s_tab, Lower(element_name)) THEN "new tab to open"
            ELSE IF element_type = None THEN AttributeError
            ELSE IF Contains(s_button, Lower(element_type))
                    \/ Contains(s_link, Lower(element_type))
            THEN "page load after click"
            ELSE IF Contains(s_window, Lower(element_name)) THEN "window to open"
            ELSE "UI response"
       ELSE IF kind = KEY_COMBINATION
       THEN IF \E i \in 1..Len(keys) :
                  Contains(s_c, Lower(keys[i])) \/ Contains(s_x03, Lower(keys[i]))
            THEN "copy operation"
            ELSE IF \E i \in 1..Len(keys) :
                  Contains(s_v, Lower(keys[i])) \/ Contains(s_x16, Lower(keys[i]))
            THEN "paste operation"
            ELSE "keyboard shortcut"
       ELSE IF kind = MOUSE_DRAG THEN "text selection"
       ELSE "action to complete"

\* lines 254-299: the reason, or AttributeError where an element_name or
\* element_type of None is lowered
_infer_wait_reason(current_event, next_event) ==
    LET data         == current_event.data
        kind         == current_event.event_type
        element_name == GetOr(data, "element_name", <<>>)
        element_type == GetOr(data, "element_type", <<>>)
        current_desc == Lower(element_name)
        keys         == GetOr(data, "keys", <<>>)
    IN IF element_name = None THEN AttributeError
       ELSE IF kind = KEY_PRESS /\ Contains(s_enter, Lower(GetOr(data, "key", <<>>)))
       THEN "page load and navigation"
       ELSE IF Contains(s_search, current_desc) \/ Contains(s_address, current_desc)
       THEN "search results to load"
       ELSE IF kind = MOUSE_CLICK
       THEN IF Contains(s_tab, Lower(element_name)) THEN "new tab to open"
            ELSE IF element_type = None THEN AttributeError
            ELSE IF Contains(s_button, Lower(element_type))
                    \/ Contains(s_link, Lower(element_type))
            THEN "page load after click"
            ELSE IF Contains(s_window, Lower(element_name)) THEN "window to open"
            ELSE "UI response"
       ELSE IF kind = KEY_COMBINATION
       THEN IF \E i \in 1..Len(keys) :
                  Contains(s_c, Lower(keys[i])) \/ Contains(s_x03, Lower(keys[i]))
            THEN "copy operation"
            ELSE IF \E i \in 1..Len(keys) :
                  Contains(s_v, Lower(keys[i])) \/ Contains(s_x16, Lower(keys[i]))
            THEN "paste operation"
            ELSE "keyboard shortcut"
       ELSE IF kind = MOUSE_DRAG THEN "text selection"
       ELSE "action to complete"

(***************************************************************************)
(* Temporal gap analyzer                                                   *)
(***************************************************************************)

\* the defaults of insert_wait_steps, in centiseconds
min_wait_threshold == 200
buffer_seconds     == 100
max_wait_seconds   == 1000

\* round(x, 1) of a number of centiseconds that is not a tie (an even number)
Round1(cs) == ((cs + 5) \div 10) * 10

Min(a, b) == IF a <= b THEN a ELSE b

\* sorted(events, key=lambda e: e.timestamp): stable insertion
RECURSIVE InsertSorted(_, _)
InsertSorted(sorted, e) ==
    IF sorted = <<>> THEN <<e>>
    ELSE IF sorted[Len(sorted)].timestamp <= e.timestamp THEN Append(sorted, e)
    ELSE Append(InsertSorted(SubSeq(sorted, 1, Len(sorted) - 1), e), sorted[Len(sorted)])

\* SortedByTimestamp that leaves the events in the order of the session
SortedByTimestamp_AsRecorded(events) == events

RECURSIVE SortedByTimestamp(_)
SortedByTimestamp(events) ==
    IF events = <<>> THEN <<>>
    ELSE InsertSorted(SortedByTimestamp(SubSeq(events, 1, Len(events) - 1)),
                      events[Len(events)])

\* what the body of the loop gives when it inserts no wait step, and when an
\* exception ends it
NoWait == [steps |-> <<>>, raised |-> <<>>]
WaitRaised(kind) == [steps |-> <<>>, raised |-> <<[kind |-> kind, doc |-> <<>>]>>]

\* WaitStepAfter with a strict comparison against the threshold
WaitStepAfter_StrictThreshold(step, current_event, next_event) ==
    LET time_delta  == next_event.timestamp - current_event.timestamp
        wait_reason == _infer_wait_reason(current_event, next_event)
    IN IF ~(time_delta > min_wait_threshold) THEN NoWait
       ELSE IF wait_reason = AttributeError THEN WaitRaised(AttributeError)
       ELSE LET wait_duration == Min(Round1(time_delta + buffer_seconds), max_wait_seconds)
            IN [steps |-> <<WorkflowStep(WaitId(step.step_id), WAIT,
                               <<Desc("Wait {}s for " \o wait_reason,
                                      <<>>, <<wait_duration>>)>>,
                               <<>>,
                               [duration_seconds |-> wait_duration,
                                original_gap     |-> Round1(time_delta)])>>,
                raised |-> <<>>]

\* WaitStepAfter without the cap on the duration
WaitStepAfter_NoCap(step, current_event, next_event) ==
    LET time_delta  == next_event.timestamp - current_event.timestamp
        wait_reason == _infer_wait_reason(current_event, next_event)
    IN IF ~(time_delta >= min_wait_threshold) THEN NoWait
       ELSE IF wait_reason = AttributeError THEN WaitRaised(AttributeError)
       ELSE LET wait_duration == Round1(time_delta + buffer_seconds)
            IN [steps |-> <<WorkflowStep(WaitId(step.step_id), WAIT,
                               <<Desc("Wait {}s for " \o wait_reason,
                                      <<>>, <<wait_duration>>)>>,
                               <<>>,
                               [duration_seconds |-> wait_duration,
                                original_gap     |-> Round1(time_delta)])>>,
                raised |-> <<>>]

\* lines 131-154: the wait step after step (none when the gap is short), or
\* the exception _infer_wait_reason ends the call with
WaitStepAfter(step, current_event, next_event) ==
    LET time_delta  == next_event.timestamp - current_event.timestamp
        wait_reason == _infer_wait_reason(current_event, next_event)
    IN IF ~(time_delta >= min_wait_threshold) THEN NoWait
       ELSE IF wait_reason = AttributeError THEN WaitRaised(AttributeError)
       ELSE LET wait_duration == Min(Round1(time_delta + buffer_seconds), max_wait_seconds)
            IN [steps |-> <<WorkflowStep(WaitId(step.step_id), WAIT,
                               <<Desc("Wait {}s for " \o wait_reason,
                                      <<>>, <<wait_duration>>)>>,
                               <<>>,
                               [duration_seconds |-> wait_duration,
                                original_gap     |-> Round1(time_delta)])>>,
                raised |-> <<>>]

\* NewStepsFrom with a wait of max_wait_seconds where the correlator finds no
\* event for one of the two steps
RECURSIVE NewStepsFrom_WaitWhenUncorrelated(_, _, _, _)
NewStepsFrom_WaitWhenUncorrelated(wsteps, sorted_events, i, new_steps) ==
    IF i >= Len(wsteps) THEN [steps |-> new_steps, raised |-> <<>>]
    ELSE LET step == wsteps[i + 1]
             wait ==
                IF i < Len(wsteps) - 1
                THEN LET current_event == _find_step_event(step, sorted_events, i)
                         next_event    == _find_step_event(wsteps[i + 2], sorted_events, i + 1)
                     IN IF current_event # <<>> /\ next_event # <<>>
                        THEN WaitStepAfter(step, current_event[1], next_event[1])
                        ELSE [steps |-> <<WorkflowStep(WaitId(step.step_id), WAIT,
                                           <<Desc("Wait {}s for action to complete",
                                                  <<>>, <<max_wait_seconds>>)>>,
                                           <<>>,
                                           [duration_seconds |-> max_wait_seconds])>>,
                              raised |-> <<>>]
                ELSE NoWait
         IN IF wait.raised # <<>> THEN wait
            ELSE NewStepsFrom_WaitWhenUncorrelated(wsteps, sorted_events, i + 1,
                    new_steps \o <<step>> \o wait.steps)

\* NewStepsFrom with the wait step ahead of the step it is named after
RECURSIVE NewStepsFrom_WaitBeforeStep(_, _, _, _)
NewStepsFrom_WaitBeforeStep(wsteps, sorted_events, i, new_steps) ==
    IF i >= Len(wsteps) THEN [steps |-> new_steps, raised |-> <<>>]
    ELSE LET step == wsteps[i + 1]
             wait ==
                IF i < Len(wsteps) - 1
                THEN LET current_event == _find_step_event(step, sorted_events, i)
                         next_event    == _find_step_event(wsteps[i + 2], sorted_events, i + 1)
                     IN IF current_event # <<>> /\ next_event # <<>>
                        THEN WaitStepAfter(step, current_event[1], next_event[1])
                        ELSE NoWait
                ELSE NoWait
         IN IF wait.raised # <<>> THEN wait
            ELSE NewStepsFrom_WaitBeforeStep(wsteps, sorted_events, i + 1,
                    new_steps \o wait.steps \o <<step>>)

\* lines 117-154: the loop of insert_wait_steps from workflow.steps[i+1] on,
\* with the new_steps built so far: new_steps at the end of the loop, or the
\* exception that ended it
RECURSIVE NewStepsFrom(_, _, _, _)
NewStepsFrom(wsteps, sorted_events, i, new_steps) ==
    IF i >= Len(wsteps) THEN [steps |-> new_steps, raised |-> <<>>]
    ELSE LET step == wsteps[i + 1]
             wait ==
                IF i < Len(wsteps) - 1
                THEN LET current_event == _find_step_event(step, sorted_events, i)
                         next_event    == _find_step_event(wsteps[i + 2], sorted_events, i + 1)
                     IN IF current_event # <<>> /\ next_event # <<>>
                        THEN WaitStepAfter(step, current_event[1], next_event[1])
                        ELSE NoWait
                ELSE NoWait
         IN IF wait.raised # <<>> THEN wait
            ELSE NewStepsFrom(wsteps, sorted_events, i + 1,
                    new_steps \o <<step>> \o wait.steps)

\* lines 90-162: the step list and the metadata insert_wait_steps leaves; an
\* exception in the loop leaves the workflow as it was (lines 158-160 are
\* not reached)
insert_wait_steps(wsteps, meta, events) ==
    IF wsteps = <<>> \/ events = <<>>
    THEN [steps |-> wsteps, metadata |-> meta, raised |-> <<>>]
    ELSE LET out       == NewStepsFrom(wsteps, SortedByTimestamp(events), 0, <<>>)
             new_steps == out.steps
         IN IF out.raised # <<>>
            THEN [steps |-> wsteps, metadata |-> meta, raised |-> out.raised]
            ELSE [steps    |-> new_steps,
                  metadata |-> [k \in DOMAIN meta \cup {"total_steps", "wait_steps_inserted"} |->
                                 IF k = "total_steps" THEN Len(new_steps)
                                 ELSE IF k = "wait_steps_inserted"
                                 THEN Len(new_steps) - Len(wsteps)
                                 ELSE meta[k]],
                  raised   |-> <<>>]

(***************************************************************************)
(* Format adapter: convert_friend_format of src/src/tools/format_converter *)
(***************************************************************************)

\* lines 96-106: <<>> for a command the mapping does not have
map_command_to_event_type(command) ==
    CASE command = <<"CLICK">>  -> <<MOUSE_CLICK>>
      [] command = <<"TYPE">>   -> <<TEXT_INPUT>>
      [] command = <<"PRESS">>  -> <<KEY_PRESS>>
      [] command = <<"SCROLL">> -> <<SCROLL>>
      [] command = <<"DRAG">>   -> <<MOUSE_DRAG>>
      [] command = <<"HOTKEY">> -> <<KEY_COMBINATION>>
      [] command = <<"COPY">>   -> <<KEY_COMBINATION>>
      [] command = <<"PASTE">>  -> <<KEY_COMBINATION>>
      [] OTHER                  -> <<>>

s_Button_dot == <<"B", "u", "t", "t", "o", "n", ".">>
s_Unknown    == <<"U", "n", "k", "n", "o", "w", "n">>
s_NA         == <<"N", "/", "A">>
s_Error      == <<"E", "r", "r", "o", "r">>
s_M_colon    == <<"M", ":">>
s_colon      == <<":">>
s_Z          == <<"Z">>
s_utc        == <<"+", "0", "0", ":", "0", "0">>

\* the text of a timestamp is a sequence of characters in which the lexeme
\* DateT stands for a date and the letter T, as in "2025-01-15T"
DateT == "2025-01-15T"

DigitValue(c) ==
    CASE c = "0" -> 0 [] c = "1" -> 1 [] c = "2" -> 2 [] c = "3" -> 3
      [] c = "4" -> 4 [] c = "5" -> 5 [] c = "6" -> 6 [] c = "7" -> 7
      [] c = "8" -> 8 [] c = "9" -> 9 [] OTHER -> -1

\* the number two characters write, -1 when one of them is no digit
TwoDigits(s, i) ==
    IF DigitValue(s[i]) < 0 \/ DigitValue(s[i + 1]) < 0 THEN -1
    ELSE 10 * DigitValue(s[i]) + DigitValue(s[i + 1])

\* datetime.fromisoformat for a date followed by HH:MM or HH:MM:SS and an
\* optional offset +00:00: <<>> for ValueError, else <<centiseconds of the day>>
fromisoformat(s) ==
    LET n    == Len(s)
        zone == n > 6 /\ SubSeq(s, n - 5, n) = s_utc
        body == IF zone THEN SubSeq(s, 1, n - 6) ELSE s
        hh   == TwoDigits(body, 2)
        mm   == TwoDigits(body, 5)
        ss   == IF Len(body) = 9 THEN TwoDigits(body, 8) ELSE 0
    IN IF /\ Len(body) \in {6, 9}
          /\ body[1] = DateT
          /\ body[4] = ":"
          /\ Len(body) = 9 => body[7] = ":"
          /\ hh >= 0 /\ hh < 24 /\ mm >= 0 /\ mm < 60 /\ ss >= 0 /\ ss < 60
       THEN <<((hh * 60 + mm) * 60 + ss) * 100>>
       ELSE <<>>

\* lines 26-29 and 54-59: the element attributes that go into the event data;
\* an attribute that is None (a JSON null) or empty is not truthy and is left out
ElementData(action) ==
    LET element       == GetOr(action, "element", EmptyDict)
        element_name  == GetOr(element, "name", <<>>)
        element_type  == GetOr(element, "control_type", <<>>)
        automation_id == GetOr(element, "automation_id", <<>>)
        keep == (IF Truthy(element_name)
                    /\ element_name \notin {s_Error, s_NA, s_Unknown, <<>>}
                 THEN {"element_name"} ELSE {})
                \cup (IF Truthy(element_type) /\ element_type \notin {s_Unknown, <<>>}
                      THEN {"element_type"} ELSE {})
                \cup (IF Truthy(automation_id) /\ automation_id \notin {s_NA, <<>>}
                      THEN {"automation_id"} ELSE {})
    IN [k \in keep |-> CASE k = "element_name"  -> element_name
                         [] k = "element_type"  -> element_type
                         [] k = "automation_id" -> automation_id]

\* isinstance(v, str) of lines 35 and 39, for the values a recording holds
\* under "button" and "key": a str or None (a JSON null)
IsStr(v) == v # None

\* lines 32-50: the parameters with button and key cleaned, and for COPY and
\* PASTE the clipboard intent; a user_intent recorded with any other command
\* stays as it is
CleanParameters(action) ==
    LET params  == GetOr(action, "parameters", EmptyDict)
        command == Get(action, "command")
        intent  == IF command = <<"COPY">> \/ command = <<"PASTE">>
                   THEN {"user_intent", "clipboard_content"}
                   ELSE {}
    IN [k \in DOMAIN params \cup intent |->
          IF k = "user_intent" /\ k \in intent
          THEN (IF command = <<"COPY">> THEN "copy_to_clipboard"
                ELSE "paste_from_clipboard")
          ELSE IF k = "clipboard_content" /\ k \in intent
          THEN GetOr(params, "content", <<>>)
          ELSE IF k = "button" /\ IsStr(params[k])
          THEN Lower(Replace(params[k], s_Button_dot, <<>>))
          ELSE IF k = "key" /\ IsStr(params[k]) /\ StartsWith(params[k], s_Key_dot)
          THEN Lower(Replace(params[k], s_Key_dot, <<>>))
          ELSE params[k]]

\* dict d updated with dict e
Updated(d, e) ==
    [k \in DOMAIN d \cup DOMAIN e |-> IF k \in DOMAIN e THEN e[k] ELSE d[k]]

\* line 64, and the argument of fromisoformat of line 69
RepairedTimestamp(timestamp_str) == Replace(timestamp_str, s_M_colon, s_colon)
IsoText(timestamp_str) == Replace(timestamp_str, s_Z, s_utc)

\* ConvertAction without the repair of line 64
ConvertAction_NoRepair(action) ==
    LET command    == Get(action, "command")
        event_type == map_command_to_event_type(command)
    IN IF command = <<"STOP">> THEN [outcome |-> "skip"]
       ELSE IF event_type = <<>> THEN [outcome |-> "skip"]
       ELSE IF "timestamp" \notin DOMAIN action
       THEN [outcome |-> "raise", kind |-> "KeyError"]
       ELSE LET timestamp_str == action.timestamp
                timestamp     == fromisoformat(IsoText(timestamp_str))
            IN IF timestamp = <<>>
               THEN [outcome |-> "warn", timestamp_str |-> timestamp_str]
               ELSE [outcome |-> "event",
                     event   |-> EventLog(timestamp[1], event_type[1],
                                   Updated(CleanParameters(action), ElementData(action)))]

\* lines 15-78: what the loop body does with one action
ConvertAction(action) ==
    LET command    == Get(action, "command")
        event_type == map_command_to_event_type(command)
    IN IF command = <<"STOP">> THEN [outcome |-> "skip"]
       ELSE IF event_type = <<>> THEN [outcome |-> "skip"]
       ELSE IF "timestamp" \notin DOMAIN action
       THEN [outcome |-> "raise", kind |-> "KeyError"]
       ELSE LET timestamp_str == RepairedTimestamp(action.timestamp)
                timestamp     == fromisoformat(IsoText(timestamp_str))
            IN IF timestamp = <<>>
               THEN [outcome |-> "warn", timestamp_str |-> timestamp_str]
               ELSE [outcome |-> "event",
                     event   |-> EventLog(timestamp[1], event_type[1],
                                   Updated(CleanParameters(action), ElementData(action)))]

\* lines 13-78: the loop over actions[k..]: the events appended, the
\* timestamps warned about, and whether an exception ended the loop
RECURSIVE ConvertFrom(_, _, _, _)
ConvertFrom(actions, k, events, warned) ==
    IF k > Len(actions) THEN [events |-> events, warned |-> warned, raised |-> <<>>]
    ELSE LET out == ConvertAction(actions[k])
         IN IF out.outcome = "raise"
            THEN [events |-> events, warned |-> warned,
                  raised |-> <<[kind |-> out.kind, doc |-> <<>>]>>]
            ELSE IF out.outcome = "event"
            THEN ConvertFrom(actions, k + 1, Append(events, out.event), warned)
            ELSE IF out.outcome = "warn"
            THEN ConvertFrom(actions, k + 1, events, Append(warned, out.timestamp_str))
            ELSE ConvertFrom(actions, k + 1, events, warned)

\* str(n) inside the f-string of line 82, for the numbers of one digit
DecimalText(n) ==
    CASE n = 0 -> "0" [] n = 1 -> "1" [] n = 2 -> "2" [] n = 3 -> "3" [] n = 4 -> "4"
      [] n = 5 -> "5" [] n = 6 -> "6" [] n = 7 -> "7" [] n = 8 -> "8" [] n = 9 -> "9"

\* datetime.now().isoformat() of line 84: a text fromisoformat reads
s_now == <<DateT, "0", "0", ":", "0", "0", ":", "0", "0">>

\* lines 80-89: the SessionTimeline around the events; the start time is read
\* from metadata["startTimeFormatted"] as it stands, outside any try, so that
\* a text fromisoformat rejects ends the call with ValueError
SessionOf(metadata, events) ==
    LET start_time == fromisoformat(IsoText(GetOr(metadata, "startTimeFormatted", s_now)))
    IN IF start_time = <<>>
       THEN [session |-> <<>>, raised |-> <<[kind |-> "ValueError", doc |-> <<>>]>>]
       ELSE [session |-> <<[session_id  |-> <<"session-",
                                              IF "startTimeSeconds" \in DOMAIN metadata
                                              THEN DecimalText(metadata.startTimeSeconds)
                                              ELSE "unknown">>,
                            start_time  |-> start_time[1],
                            application |-> "Firefox Browser",
                            events      |-> events,
                            metadata    |-> metadata]>>,
             raised  |-> <<>>]

\* lines 6-91: the session returned, the timestamps warned about, and the
\* exception that ended the call, if any
convert_friend_format(friend_data) ==
    LET metadata == GetOr(friend_data, "metadata", EmptyDict)
        actions  == GetOr(friend_data, "actions", <<>>)
        loop     == ConvertFrom(actions, 1, <<>>, <<>>)
        built    == SessionOf(metadata, loop.events)
    IN IF loop.raised # <<>>
       THEN [session |-> <<>>, warned |-> loop.warned, raised |-> loop.raised]
       ELSE [session |-> built.session, warned |-> loop.warned, raised |-> built.raised]

(***************************************************************************)
(* The generative path of generate_from_session                            *)
(***************************************************************************)

\* s.find(sub, start): the 0-based index of the first occurrence at or after
\* start, -1 when there is none
Find(s, sub, start) ==
    LET hits == {i \in start..(Len(s) - Len(sub)) : SubSeq(s, i + 1, i + Len(sub)) = sub}
    IN IF hits = {} THEN -1 ELSE CHOOSE i \in hits : \A h \in hits : i <= h

\* The text of a response is a sequence of characters in which a lexeme
\* stands for a run of several characters: "{...}" for the complete text of
\* one JSON object, "{..." for that text less its closing brace, "{.." for
\* the text of an object cut short and "{." for that text less its last
\* character
JsonObject        == "{...}"
JsonUnclosed      == "{..."
JsonTruncated     == "{.."
JsonTruncatedMore == "{."

\* the lexeme without its last character
LessLastChar(lexeme) ==
    IF lexeme = JsonObject THEN JsonUnclosed ELSE JsonTruncatedMore

\* s[start:end] for 0 <= start <= len(s); a negative end counts from the end,
\* in characters: s[start:-1] takes the last character off a lexeme that ends s
Slice(s, start, end) ==
    LET e == IF end < 0 THEN (IF Len(s) + end < 0 THEN 0 ELSE Len(s) + end)
             ELSE IF end > Len(s) THEN Len(s) ELSE end
    IN IF end = -1 /\ start < Len(s) /\ s[Len(s)] \in {JsonObject, JsonTruncated}
       THEN Append(SubSeq(s, start + 1, Len(s) - 1), LessLastChar(s[Len(s)]))
       ELSE SubSeq(s, start + 1, e)

\* the character U+0060, of which three make a code fence
GraveAccent  == "U+0060"
s_fence      == <<GraveAccent, GraveAccent, GraveAccent>>
s_fence_json == s_fence \o <<"j", "s", "o", "n">>

\* lines 836-846: the text _extract_json hands to json.loads
ExtractedText(text) ==
    LET t == Strip(text)
    IN IF Contains(s_fence_json, t)
       THEN LET start == Find(t, s_fence_json, 0) + 7
                end   == Find(t, s_fence, start)
            IN Strip(Slice(t, start, end))
       ELSE IF Contains(s_fence, t)
       THEN LET start == Find(t, s_fence, 0) + 3
                end   == Find(t, s_fence, start)
            IN Strip(Slice(t, start, end))
       ELSE t

\* line 849: json.loads accepts the text of one object, white space around it
\* allowed, and nothing else of this alphabet
JsonLoads(text) == Strip(text) = <<JsonObject>>

\* lines 832-849: <<>> when json.loads raises JSONDecodeError, else <<dict>>
_extract_json(response) ==
    IF JsonLoads(ExtractedText(response.text)) THEN <<response.doc>> ELSE <<>>

\* WorkflowDefinition(**workflow_json): the fields a workflow must have
RequiredFields == {"workflow_id", "name", "description", "application", "steps"}

\* WorkflowDefinition(...) rejects a dict that lacks a required field or holds
\* a step that WorkflowStep rejects
WorkflowIsValid(doc) ==
    /\ RequiredFields \subseteq DOMAIN doc
    /\ \A k \in 1..Len(doc.steps) : StepIsValid(doc.steps[k])

\* not value, for the value of a selector: "" and {} are false
Falsy(value) == value = StrValue(<<>>) \/ (IsDict(value) /\ DOMAIN value = {})

\* lines 818-826: the positions of the events the loop would return
MatchingEvents(step, events) ==
    {k \in 1..Len(events) :
        /\ step.selector # <<>>
        /\ step.selector[1].fallback # <<>>
        /\ IsDict(step.selector[1].fallback[1].value)
        /\ LET fallback_coords == step.selector[1].fallback[1].value
           IN /\ <<GetOr(events[k].data, "x", 0)>> = Get(fallback_coords, "x")
              /\ <<GetOr(events[k].data, "y", 0)>> = Get(fallback_coords, "y")}

\* lines 813-826: <<>> for None, else <<the first matching event>>
_find_matching_event(step, events) ==
    LET hits == MatchingEvents(step, events)
    IN IF hits = {} THEN <<>>
       ELSE <<events[CHOOSE k \in hits : \A h \in hits : k <= h]>>

\* EnrichStep that repairs every text selector, empty or not
EnrichStep_EveryTextSelector(step, events) ==
    IF step.selector # <<>> /\ step.selector[1].type = "text"
    THEN LET matching_event == _find_matching_event(step, events)
         IN IF matching_event # <<>>
            THEN LET element_name == Get(matching_event[1].data, "element_name")
                 IN IF element_name # <<>> /\ Truthy(element_name[1])
                    THEN [step EXCEPT !.selector[1].value = StrValue(element_name[1])]
                    ELSE step
            ELSE step
    ELSE step

\* lines 802-809: the body of the loop of _enrich_workflow
EnrichStep(step, events) ==
    IF /\ step.selector # <<>>
       /\ step.selector[1].type = "text"
       /\ Falsy(step.selector[1].value)
    THEN LET matching_event == _find_matching_event(step, events)
         IN IF matching_event # <<>>
            THEN LET element_name == Get(matching_event[1].data, "element_name")
                 IN IF element_name # <<>> /\ Truthy(element_name[1])
                    THEN [step EXCEPT !.selector[1].value = StrValue(element_name[1])]
                    ELSE step
            ELSE step
    ELSE step

\* lines 796-811
_enrich_workflow(wsteps, events) ==
    [k \in 1..Len(wsteps) |-> EnrichStep(wsteps[k], events)]

(***************************************************************************)
(* The compilation of one session by generate_from_events_only             *)
(***************************************************************************)

VARIABLES
    session_events,     \* session.events, in insertion order
    pc,                 \* where the entry point stands
    simplified_events,  \* line 54 (line 20 of generate_from_session)
    steps,              \* the step list handed to insert_wait_steps
    workflow_steps,     \* workflow.steps
    metadata,           \* workflow.metadata
    session,            \* session_id, start_time, application and metadata of the session
    friend_actions,     \* friend_data["actions"] of convert_friend_format
    friend_metadata,    \* friend_data["metadata"]
    warnings,           \* the timestamps convert_friend_format warned about
    ai_response,        \* the text bedrock.generate_workflow returned
    raised,             \* <<>> or <<the exception that ended the call>>
    stages              \* the stages the entry point has run, in order

vars == <<session_events, pc, simplified_events, steps, workflow_steps, metadata,
          session, friend_actions, friend_metadata, warnings, ai_response, raised, stages>>

\* what convert_friend_format reads and prints
adapterVars == <<session, friend_actions, friend_metadata, warnings>>

\* the longest session of each specification
MaxSession == 3
MaxTyping  == 5
MaxTimed   == 3

s_a       == <<"a">>
s_b_sp    == <<"b", " ">>
s_Go      == <<"G", "o">>
s_x       == <<"x">>
s_Key_ctrl_l == <<"K", "e", "y", ".", "c", "t", "r", "l", "_", "l">>

\* event data as the recorder and the format adapter leave them
ClickPlain   == [kind |-> MOUSE_CLICK, data |-> [x |-> 1, y |-> 1, button |-> "left"]]
ClickGo      == [kind |-> MOUSE_CLICK,
                 data |-> [x |-> 2, y |-> 2, button |-> "left",
                           element_name |-> s_Go, element_type |-> s_Button]]
RightClickGo == [kind |-> MOUSE_CLICK,
                 data |-> [x |-> 2, y |-> 2, button |-> "right",
                           element_name |-> s_Go, element_type |-> s_Button]]
ClickBlank   == [kind |-> MOUSE_CLICK,
                 data |-> [x |-> 3, y |-> 1, button |-> "left", element_name |-> <<>>]]
DoublePlain  == [kind |-> MOUSE_DOUBLE_CLICK, data |-> [x |-> 1, y |-> 1]]
DoubleSearch == [kind |-> MOUSE_DOUBLE_CLICK,
                 data |-> [x |-> 2, y |-> 2, element_name |-> s_Search]]
DragFull     == [kind |-> MOUSE_DRAG,
                 data |-> [start_x |-> 1, start_y |-> 1, end_x |-> 3, end_y |-> 4]]
DragNoEnd    == [kind |-> MOUSE_DRAG, data |-> [start_x |-> 2, start_y |-> 2]]
ScrollUp     == [kind |-> SCROLL,
                 data |-> [x |-> 1, y |-> 1, delta_x |-> 0, delta_y |-> -1]]
TextA        == [kind |-> TEXT_INPUT, data |-> [text |-> s_a]]
TextBSearch  == [kind |-> TEXT_INPUT,
                 data |-> [text |-> s_b_sp, element_name |-> s_Search,
                           element_type |-> s_Edit, x |-> 2, y |-> 2]]
KeySpace     == [kind |-> KEY_PRESS, data |-> [key |-> s_space]]
KeyBackspace == [kind |-> KEY_PRESS, data |-> [key |-> s_backspace]]
KeyEnter     == [kind |-> KEY_PRESS, data |-> [key |-> s_Key_enter]]
HotkeyCtrlC  == [kind |-> KEY_COMBINATION, data |-> [keys |-> <<s_Key_ctrl_l, s_c>>]]
CopyX        == [kind |-> KEY_COMBINATION,
                 data |-> [keys |-> <<s_ctrl, s_c>>, user_intent |-> "copy_to_clipboard",
                           clipboard_content |-> s_x, content |-> s_x]]
Navigation   == [kind |-> NAVIGATION, data |-> [url |-> "u"]]
Screenshot   == [kind |-> SCREENSHOT, data |-> EmptyDict]

\* the events of the specifications, each with the time (centiseconds)
\* that passes before it
SessionInputs ==
    {<<ClickPlain, 100>>, <<ClickGo, 340>>, <<RightClickGo, 100>>,
     <<DoublePlain, 340>>, <<DoubleSearch, 100>>, <<DragFull, 100>>,
     <<DragNoEnd, 340>>, <<ScrollUp, 100>>, <<TextA, 340>>, <<TextBSearch, 100>>,
     <<KeySpace, 100>>, <<KeyEnter, 100>>, <<HotkeyCtrlC, 100>>, <<CopyX, 340>>,
     <<Navigation, 100>>, <<Screenshot, 340>>, <<ClickBlank, 100>>}

TypingInputs ==
    {<<TextA, 100>>, <<TextBSearch, 100>>, <<KeySpace, 100>>,
     <<KeyBackspace, 100>>, <<KeyEnter, 100>>, <<ClickPlain, 100>>}

TimedInputs ==
    {ClickGo, TextA, KeyEnter} \X {100, 198, 200, 340, 896, 5000}

\* the session a recorder opens: models/events.py, SessionTimeline less its events
RecordedSession ==
    [session_id  |-> <<"recorded">>,
     start_time  |-> 0,
     application |-> "Firefox Browser",
     metadata    |-> EmptyDict]

Init ==
    /\ session_events = <<>>
    /\ pc = "recording"
    /\ simplified_events = <<>>
    /\ steps = <<>>
    /\ workflow_steps = <<>>
    /\ metadata = EmptyDict
    /\ session = RecordedSession
    /\ friend_actions = <<>>
    /\ friend_metadata = EmptyDict
    /\ warnings = <<>>
    /\ ai_response = <<>>
    /\ raised = <<>>
    /\ stages = <<>>

\* the recorder appends one event to the session
Record(inputs, max) ==
    /\ pc = "recording"
    /\ Len(session_events) < max
    /\ \E in \in inputs :
          LET last == IF session_events = <<>> THEN 0
                      ELSE session_events[Len(session_events)].timestamp
          IN session_events' =
                Append(session_events, EventLog(last + in[2], in[1].kind, in[1].data))
    /\ UNCHANGED <<pc, simplified_events, steps, workflow_steps, metadata,
                   adapterVars, ai_response, raised, stages>>

RecordEvent  == Record(SessionInputs, MaxSession)
RecordTyping == Record(TypingInputs, MaxTyping)
RecordTimed  == Record(TimedInputs, MaxTimed)

\* line 54
SimplifyActions ==
    /\ pc = "recording"
    /\ simplified_events' = simplify_actions(session_events)
    /\ pc' = "simplified"
    /\ stages' = Append(stages, "simplify")
    /\ UNCHANGED <<session_events, steps, workflow_steps, metadata,
                   adapterVars, ai_response, raised>>

\* datetime.utcnow().isoformat() of line 77
generated_at == "utcnow"

\* the exceptions a step without description ends lines 56-80 with: the
\* ValidationError of WorkflowStep (line 476), or, where WorkflowStep lets
\* None through, the AttributeError of description.lower() (line 766)
SynthesisErrors == {"ValidationError", AttributeError}

\* lines 56-80: the steps and the WorkflowDefinition built from them
SynthesizeSteps ==
    /\ pc = "simplified"
    /\ LET built == StepsFrom(simplified_events, 1, 1)
       IN IF \A k \in 1..Len(built) : StepIsValid(built[k])
          THEN /\ steps' = built
               /\ workflow_steps' = built
               /\ metadata' = [source_session   |-> session.session_id,
                               generated_at     |-> generated_at,
                               event_count      |-> Len(session_events),
                               simplified_count |-> Len(simplified_events)]
               /\ pc' = "synthesized"
               /\ UNCHANGED raised
          ELSE /\ \E kind \in SynthesisErrors :
                    raised' = <<[kind |-> kind, doc |-> <<>>]>>
               /\ pc' = "error"
               /\ UNCHANGED <<steps, workflow_steps, metadata>>
    /\ stages' = Append(stages, "synthesize")
    /\ UNCHANGED <<session_events, simplified_events, adapterVars, ai_response>>

\* line 83 (line 46 of generate_from_session)
InsertWaitSteps ==
    /\ pc \in {"synthesized", "enriched"}
    /\ \E out \in {insert_wait_steps(workflow_steps, metadata, session_events)} :
          /\ workflow_steps' = out.steps
          /\ metadata' = out.metadata
          /\ raised' = out.raised
          /\ pc' = IF out.raised = <<>> THEN "done" ELSE "error"
    /\ stages' = Append(stages, "insert_waits")
    /\ UNCHANGED <<session_events, simplified_events, steps,
                   adapterVars, ai_response>>

Next == RecordEvent \/ SimplifyActions \/ SynthesizeSteps \/ InsertWaitSteps

Spec == Init /\ [][Next]_vars

NextTyping == RecordTyping \/ SimplifyActions

SpecTyping == Init /\ [][NextTyping]_vars

NextTimed == RecordTimed \/ SimplifyActions \/ SynthesizeSteps \/ InsertWaitSteps

SpecTimed == Init /\ [][NextTimed]_vars

(***************************************************************************)
(* Sessions of keyboard shortcuts                                          *)
(***************************************************************************)

MaxKeys == 2

s_z         == <<"z">>
s_Key_alt_l == <<"K", "e", "y", ".", "a", "l", "t", "_", "l">>
s_Key_tab   == <<"K", "e", "y", ".", "t", "a", "b">>

\* key combinations as the recorder spells them, and a paste as the format
\* adapter leaves it
HotkeyCtrlV  == [kind |-> KEY_COMBINATION, data |-> [keys |-> <<s_Key_ctrl_l, s_v>>]]
HotkeyRawV   == [kind |-> KEY_COMBINATION, data |-> [keys |-> <<s_Key_ctrl_l, s_x16>>]]
HotkeyCtrlA  == [kind |-> KEY_COMBINATION, data |-> [keys |-> <<s_Key_ctrl_l, s_a>>]]
HotkeyCtrlZ  == [kind |-> KEY_COMBINATION, data |-> [keys |-> <<s_Key_ctrl_l, s_z>>]]
HotkeyAltTab == [kind |-> KEY_COMBINATION, data |-> [keys |-> <<s_Key_alt_l, s_Key_tab>>]]
PasteX       == [kind |-> KEY_COMBINATION,
                 data |-> [keys |-> <<s_ctrl, s_v>>, user_intent |-> "paste_from_clipboard",
                           clipboard_content |-> s_x, content |-> s_x]]

KeyInputs ==
    {HotkeyCtrlC, HotkeyCtrlV, HotkeyRawV, HotkeyCtrlA, HotkeyCtrlZ, HotkeyAltTab,
     PasteX} \X {100, 340}

RecordKeys == Record(KeyInputs, MaxKeys)

NextKeys == RecordKeys \/ SimplifyActions \/ SynthesizeSteps \/ InsertWaitSteps

SpecKeys == Init /\ [][NextKeys]_vars

(***************************************************************************)
(* Sessions a caller labels with detect_copy_paste_patterns                *)
(***************************************************************************)

\* iterating keys that are None (lines 424 and 430)
TypeError == "TypeError"

\* lines 422-426 and 428-432: the shortcut is recognised by its keys in lower
\* case, each compared whole with the names the function knows
_is_copy_shortcut(keys) ==
    LET keys_lower == [k \in 1..Len(keys) |-> Lower(keys[k])]
    IN /\ \E k \in 1..Len(keys) : keys_lower[k] \in {s_ctrl, s_ctrl_l}
       /\ \E k \in 1..Len(keys) : keys_lower[k] \in {s_c, s_x03}

_is_paste_shortcut(keys) ==
    LET keys_lower == [k \in 1..Len(keys) |-> Lower(keys[k])]
    IN /\ \E k \in 1..Len(keys) : keys_lower[k] \in {s_ctrl, s_ctrl_l}
       /\ \E k \in 1..Len(keys) : keys_lower[k] \in {s_v, s_x16}

\* event.data["user_intent"] = intent
Labelled(event, intent) ==
    [event EXCEPT !.data = Updated(event.data, [user_intent |-> intent])]

\* lines 379-418: the loop from index i (0-based) on. The events are labelled
\* in place and appended in their order, so the list returned is the list
\* given, and a label written before an exception stays. Line 408 reads
\* next_key.lower() only when the keys are a paste shortcut; keys of None
\* end _is_copy_shortcut and _is_paste_shortcut with TypeError.
RECURSIVE DetectFrom(_, _)
DetectFrom(events, i) ==
    IF ~(i < Len(events)) THEN [events |-> events, raised |-> <<>>]
    ELSE LET event     == events[i + 1]
             has_next  == i + 1 < Len(events)
             keys      == GetOr(event.data, "keys", <<>>)
             next_keys == GetOr(events[i + 2].data, "keys", <<>>)
             next_key  == GetOr(events[i + 2].data, "key", <<>>)
             is_drag_then_combination ==
                /\ event.event_type = MOUSE_DRAG
                /\ has_next
                /\ events[i + 2].event_type = KEY_COMBINATION
             is_combination_then_press ==
                /\ event.event_type = KEY_COMBINATION
                /\ has_next
                /\ events[i + 2].event_type = KEY_PRESS
         IN IF is_drag_then_combination /\ next_keys = None
            THEN [events |-> events, raised |-> <<[kind |-> TypeError, doc |-> <<>>]>>]
            ELSE IF is_drag_then_combination /\ _is_copy_shortcut(next_keys)
            THEN DetectFrom([events EXCEPT
                               ![i + 1] = Labelled(@, "select_text_for_copy"),
                               ![i + 2] = Labelled(@, "copy_to_clipboard")],
                            i + 2)
            ELSE IF ~is_combination_then_press
            THEN DetectFrom(events, i + 1)
            ELSE IF keys = None
            THEN [events |-> events, raised |-> <<[kind |-> TypeError, doc |-> <<>>]>>]
            ELSE IF ~_is_paste_shortcut(keys)
            THEN DetectFrom(events, i + 1)
            ELSE IF next_key = None
            THEN [events |-> events, raised |-> <<[kind |-> AttributeError, doc |-> <<>>]>>]
            ELSE IF Contains(s_enter, Lower(next_key))
            THEN DetectFrom([events EXCEPT
                               ![i + 1] = Labelled(@, "paste_from_clipboard"),
                               ![i + 2] = Labelled(@, "submit_input")],
                            i + 2)
            ELSE DetectFrom(events, i + 1)

\* lines 373-420
detect_copy_paste_patterns(events) == DetectFrom(events, 0)

\* the longest labelled session
MaxPatterns == 3

\* a copy and a paste as the format adapter spells their keys
HotkeyPlainC == [kind |-> KEY_COMBINATION, data |-> [keys |-> <<s_ctrl, s_c>>]]
HotkeyPlainV == [kind |-> KEY_COMBINATION, data |-> [keys |-> <<s_ctrl_l, s_x16>>]]
KeyNull      == [kind |-> KEY_PRESS, data |-> [key |-> None]]
HotkeyNull   == [kind |-> KEY_COMBINATION, data |-> [keys |-> None]]

PatternInputs ==
    {DragFull, HotkeyPlainC, HotkeyCtrlC, HotkeyPlainV, HotkeyNull, KeyEnter, KeySpace,
     KeyNull}
        \X {100}

RecordPatterns == Record(PatternInputs, MaxPatterns)

\* lines 373-420, called with session.events: no entry point calls it (the
\* call of line 309 is commented out), a caller of the class can
DetectCopyPastePatterns ==
    /\ pc = "recording"
    /\ LET out == detect_copy_paste_patterns(session_events)
       IN /\ session_events' = out.events
          /\ raised' = out.raised
          /\ pc' = IF out.raised = <<>> THEN "labelled" ELSE "error"
    /\ stages' = Append(stages, "detect_patterns")
    /\ UNCHANGED <<simplified_events, steps, workflow_steps, metadata,
                   adapterVars, ai_response>>

NextPatterns == RecordPatterns \/ DetectCopyPastePatterns

SpecPatterns == Init /\ [][NextPatterns]_vars

(***************************************************************************)
(* Sessions that exercise every rule of the wait-reason classifier         *)
(***************************************************************************)

MaxReasons == 2

s_NewTab   == <<"N", "e", "w", " ", "T", "a", "b">>
s_Window   == <<"W", "i", "n", "d", "o", "w">>
s_SearchTab == <<"S", "e", "a", "r", "c", "h", " ", "t", "a", "b">>
s_AddressBar == <<"A", "d", "d", "r", "e", "s", "s", " ", "b", "a", "r">>

KeyEnterSearch  == [kind |-> KEY_PRESS,
                    data |-> [key |-> s_enter, element_name |-> s_Search]]
KeyBackSearch   == [kind |-> KEY_PRESS,
                    data |-> [key |-> s_backspace, element_name |-> s_Search]]
ClickSearchTab  == [kind |-> MOUSE_CLICK,
                    data |-> [x |-> 3, y |-> 3, button |-> "left",
                              element_name |-> s_SearchTab, element_type |-> s_Button]]
ClickTabButton  == [kind |-> MOUSE_CLICK,
                    data |-> [x |-> 4, y |-> 1, button |-> "left",
                              element_name |-> s_NewTab, element_type |-> s_Button]]
ClickWindowLink == [kind |-> MOUSE_CLICK,
                    data |-> [x |-> 4, y |-> 2, button |-> "left",
                              element_name |-> s_Window, element_type |-> s_Hyperlink]]
ClickWindow     == [kind |-> MOUSE_CLICK,
                    data |-> [x |-> 4, y |-> 3, button |-> "left",
                              element_name |-> s_Window]]
DragAddress     == [kind |-> MOUSE_DRAG,
                    data |-> [start_x |-> 3, start_y |-> 3, end_x |-> 4, end_y |-> 4,
                              element_name |-> s_AddressBar]]

\* each event comes 3.4 s after the one before it
\* a key combination recorded on a search field, as the format adapter
\* leaves a HOTKEY action with an element (format_converter.py, lines 54-55)
HotkeySearch == [kind |-> KEY_COMBINATION,
                 data |-> [keys |-> <<s_ctrl, s_c>>, element_name |-> s_Search]]

ReasonInputs ==
    {KeyEnter, KeyEnterSearch, KeyBackspace, KeyBackSearch, TextA, TextBSearch,
     ClickSearchTab, ClickTabButton, ClickGo, ClickWindowLink, ClickWindow,
     ClickPlain, DoublePlain, DragFull, DragAddress, ScrollUp, Navigation,
     HotkeySearch, HotkeyCtrlV, HotkeyAltTab}
      \X {340}

RecordReasons == Record(ReasonInputs, MaxReasons)

NextReasons == RecordReasons \/ SimplifyActions \/ SynthesizeSteps \/ InsertWaitSteps

SpecReasons == Init /\ [][NextReasons]_vars

(***************************************************************************)
(* Sessions whose events come in any order of time, two at the same time   *)
(* included, as a recording with timestamps to the second gives them       *)
(***************************************************************************)

MaxOrder == 3

OrderInputs == {ClickGo, RightClickGo, ClickPlain, TextA} \X {100, 340}

\* the event is appended with the timestamp it carries, whatever the
\* timestamps of the events before it
RecordAnyTime ==
    /\ pc = "recording"
    /\ Len(session_events) < MaxOrder
    /\ \E in \in OrderInputs :
          session_events' =
              Append(session_events, EventLog(in[2], in[1].kind, in[1].data))
    /\ UNCHANGED <<pc, simplified_events, steps, workflow_steps, metadata,
                   adapterVars, ai_response, raised, stages>>

NextOrder == RecordAnyTime \/ SimplifyActions \/ SynthesizeSteps \/ InsertWaitSteps

SpecOrder == Init /\ [][NextOrder]_vars

(***************************************************************************)
(* The conversion of one recording by convert_friend_format                *)
(***************************************************************************)

\* the longest recording
MaxActions == 3

s_time       == <<DateT, "1", "7", ":", "5", "6", ":", "4", "7">>
s_time_stray == <<DateT, "1", "7", ":", "5", "6", "M", ":", "4", "8">>
s_time_clean == <<DateT, "1", "7", ":", "5", "6", ":", "4", "8">>
s_time_utc   == <<DateT, "1", "7", ":", "5", "6", ":", "4", "9", "Z">>
s_time_bad   == <<DateT, "1", "7", ":", "5", "x", ":", "5", "0">>
s_Button_left == <<"B", "u", "t", "t", "o", "n", ".", "l", "e", "f", "t">>
s_Key_space   == <<"K", "e", "y", ".", "s", "p", "a", "c", "e">>

\* actions as the recorder of the friend format writes them
FriendClick ==
    [command |-> "CLICK", timestamp |-> s_time,
     element |-> [name |-> s_Go, control_type |-> s_Button, automation_id |-> s_NA],
     parameters |-> [x |-> 2, y |-> 2, button |-> s_Button_left]]
FriendStop  == [command |-> "STOP", timestamp |-> s_time]
FriendHover == [command |-> "HOVER", timestamp |-> s_time, parameters |-> [x |-> 1, y |-> 1]]
FriendTypeStray ==
    [command |-> "TYPE", timestamp |-> s_time_stray,
     element |-> [name |-> s_Unknown, control_type |-> s_Edit],
     parameters |-> [text |-> s_a]]
FriendPressUtc ==
    [command |-> "PRESS", timestamp |-> s_time_utc, parameters |-> [key |-> s_Key_space]]
FriendPressBadTime ==
    [command |-> "PRESS", timestamp |-> s_time_bad, parameters |-> [key |-> s_Key_enter]]
FriendCopyNoTimestamp ==
    [command |-> "COPY", parameters |-> [content |-> s_x]]

FriendActions ==
    {FriendClick, FriendStop, FriendHover, FriendTypeStray, FriendPressUtc,
     FriendPressBadTime, FriendCopyNoTimestamp}

\* the metadata a recording opens with
FriendMetadata ==
    {[startTimeSeconds |-> 7, startTimeFormatted |-> s_time],
     [startTimeSeconds |-> 7, startTimeFormatted |-> s_time_utc],
     [startTimeSeconds |-> 7, startTimeFormatted |-> s_time_stray],
     [startTimeFormatted |-> s_time_bad],
     [startTimeSeconds |-> 7]}

\* the recording gets its metadata
WriteMetadata ==
    /\ pc = "recording"
    /\ friend_metadata = EmptyDict
    /\ friend_actions = <<>>
    /\ \E written \in FriendMetadata : friend_metadata' = written
    /\ UNCHANGED <<session_events, pc, simplified_events, steps, workflow_steps,
                   metadata, session, friend_actions, warnings, ai_response, raised,
                   stages>>

\* the recording gets one more action
AddAction ==
    /\ pc = "recording"
    /\ Len(friend_actions) < MaxActions
    /\ \E action \in FriendActions : friend_actions' = Append(friend_actions, action)
    /\ UNCHANGED <<session_events, pc, simplified_events, steps, workflow_steps,
                   metadata, session, friend_metadata, warnings, ai_response, raised,
                   stages>>

\* lines 6-91: the session of the recording, or the exception that ends the call
ConvertFriendFormat ==
    /\ pc = "recording"
    /\ LET out == convert_friend_format([metadata |-> friend_metadata,
                                         actions  |-> friend_actions])
       IN IF out.raised # <<>>
          THEN /\ raised' = out.raised
               /\ warnings' = out.warned
               /\ pc' = "error"
               /\ UNCHANGED <<session, session_events>>
          ELSE /\ session' = [k \in DOMAIN RecordedSession |-> out.session[1][k]]
               /\ session_events' = out.session[1].events
               /\ warnings' = out.warned
               /\ pc' = "converted"
               /\ UNCHANGED raised
    /\ UNCHANGED <<friend_actions, friend_metadata, simplified_events, steps,
                   workflow_steps, metadata, ai_response, stages>>

NextConvert == WriteMetadata \/ AddAction \/ ConvertFriendFormat

SpecConvert == Init /\ [][NextConvert]_vars

(***************************************************************************)
(* The compilation of one session by generate_from_session                 *)
(***************************************************************************)

\* the longest session and the longest generated workflow
MaxRecorded == 2
MaxAiSteps  == 3

s_OK == <<"O", "K">>

ClickBare == [kind |-> MOUSE_CLICK, data |-> [x |-> 2, y |-> 2, button |-> "left"]]

RecordedInputs ==
    {<<ClickBare, 100>>, <<ClickGo, 340>>, <<ClickPlain, 100>>, <<TextA, 340>>}

RecordForSession == Record(RecordedInputs, MaxRecorded)

\* the steps a generated workflow is made of, as WorkflowStep holds them
\* once the JSON is validated
AiClickEmpty(n) ==
    WorkflowStep(StepId(n), CLICK, <<Desc("Click the button", <<>>, <<>>)>>,
        <<Selector("text", StrValue(<<>>),
                   <<Selector("coordinates", [x |-> 2, y |-> 2], <<>>)>>)>>,
        EmptyDict)
AiClickNamed(n) ==
    WorkflowStep(StepId(n), CLICK, <<Desc("Click the 'OK' button", <<>>, <<>>)>>,
        <<Selector("text", StrValue(s_OK),
                   <<Selector("coordinates", [x |-> 2, y |-> 2], <<>>)>>)>>,
        EmptyDict)
AiClickCoordinates(n) ==
    WorkflowStep(StepId(n), CLICK, <<Desc("Click", <<>>, <<>>)>>,
        <<Selector("coordinates", [x |-> 1, y |-> 1], <<>>)>>, EmptyDict)
AiTypeText(n) ==
    WorkflowStep(StepId(n), TYPE_TEXT, <<Desc("Type 'q'", <<>>, <<>>)>>, <<>>,
        [text |-> <<"q">>])
AiUndescribed(n) ==
    WorkflowStep(StepId(n), CLICK, <<>>,
        <<Selector("coordinates", [x |-> 1, y |-> 1], <<>>)>>, EmptyDict)

AiStepKinds == {"empty", "named", "coordinates", "type"}

AiStep(kind, n) ==
    CASE kind = "empty"       -> AiClickEmpty(n)
      [] kind = "named"       -> AiClickNamed(n)
      [] kind = "coordinates" -> AiClickCoordinates(n)
      [] kind = "type"        -> AiTypeText(n)

\* the JSON object of a workflow with these steps
AiDocument(wsteps) ==
    [workflow_id |-> "w", name |-> "n", description |-> "d",
     application |-> "a", steps |-> wsteps]

AiDocuments ==
    UNION {{AiDocument([n \in 1..len |-> AiStep(kinds[n], n)]) :
               kinds \in [1..len -> AiStepKinds]} : len \in 0..MaxAiSteps}

\* one workflow for the responses that differ in their text only
AiPlainDocument == AiDocument(<<AiClickEmpty(1), AiTypeText(2)>>)

\* a JSON object without steps, and one with a step without description
AiDocumentWithoutSteps ==
    [workflow_id |-> "w", name |-> "n", description |-> "d", application |-> "a"]
AiDocumentUndescribed == AiDocument(<<AiUndescribed(1)>>)

s_prose == <<"p", " ">>

\* the texts bedrock.generate_workflow may return around a JSON object
ResponseTexts ==
    {<<JsonObject>>,
     <<" ", JsonObject, " ">>,
     s_fence_json \o <<" ", JsonObject, " ">> \o s_fence,
     s_fence \o <<" ", JsonObject, " ">> \o s_fence,
     s_prose \o s_fence_json \o <<JsonObject>> \o s_fence \o <<" ", "p">>,
     s_fence_json \o <<" ", JsonObject>>,
     s_prose \o <<JsonObject>>,
     <<JsonObject, " ", "p">>,
     <<JsonTruncated>>,
     s_fence_json \o <<JsonTruncated>> \o s_fence,
     <<>>}

\* a response: its text and the object its lexeme "{...}" stands for
Responses ==
    {[text |-> <<JsonObject>>, doc |-> d] :
        d \in AiDocuments \cup {AiDocumentWithoutSteps, AiDocumentUndescribed}}
    \cup {[text |-> t, doc |-> AiPlainDocument] : t \in ResponseTexts}

\* lines 36-40: the response of the generative producer, its JSON and the
\* WorkflowDefinition made of it
GenerateWorkflow ==
    /\ pc = "simplified"
    /\ \E response \in Responses :
          LET workflow_json == _extract_json(response)
          IN /\ ai_response' = <<response>>
             /\ IF workflow_json = <<>>
                THEN /\ raised' = <<[kind |-> "JSONDecodeError",
                                     doc  |-> ExtractedText(response.text)]>>
                     /\ pc' = "error"
                     /\ UNCHANGED <<steps, workflow_steps, metadata>>
                ELSE IF ~WorkflowIsValid(workflow_json[1])
                THEN /\ raised' = <<[kind |-> "ValidationError", doc |-> <<>>]>>
                     /\ pc' = "error"
                     /\ UNCHANGED <<steps, workflow_steps, metadata>>
                ELSE /\ workflow_steps' = workflow_json[1].steps
                     /\ steps' = workflow_json[1].steps
                     /\ metadata' = EmptyDict
                     /\ pc' = "generated"
                     /\ UNCHANGED raised
    /\ stages' = Append(stages, "generate")
    /\ UNCHANGED <<session_events, simplified_events, adapterVars>>

\* line 43
EnrichWorkflow ==
    /\ pc = "generated"
    /\ workflow_steps' = _enrich_workflow(workflow_steps, session_events)
    /\ steps' = _enrich_workflow(workflow_steps, session_events)
    /\ pc' = "enriched"
    /\ stages' = Append(stages, "enrich")
    /\ UNCHANGED <<session_events, simplified_events, metadata,
                   adapterVars, ai_response, raised>>

NextSession ==
    \/ RecordForSession
    \/ SimplifyActions
    \/ SynthesizeSteps
    \/ GenerateWorkflow
    \/ EnrichWorkflow
    \/ InsertWaitSteps

SpecSession == Init /\ [][NextSession]_vars

(***************************************************************************)
(* Vocabulary of the properties                                            *)
(***************************************************************************)

Range(seq) == {seq[k] : k \in 1..Len(seq)}

KeyboardActions == {TYPE_TEXT, PRESS_KEY, KEY_COMBO}
MouseActions    == {CLICK, RIGHT_CLICK, DOUBLE_CLICK, DRAG, SCROLL_ACT}

IsTextInput(e)  == e.event_type = TEXT_INPUT
IsSpacePress(e) == e.event_type = KEY_PRESS /\ Get(e.data, "key") = <<s_space>>

\* events[i..j] is text, space, text, ..., text with at least two texts
IsTypingRun(events, i, j) ==
    /\ 1 <= i /\ i < j /\ j <= Len(events) /\ (j - i) % 2 = 0
    /\ \A k \in i..j : IF (k - i) % 2 = 0 THEN IsTextInput(events[k])
                                         ELSE IsSpacePress(events[k])

\* a typing run that is part of no longer typing run
IsMaximalRun(events, i, j) ==
    /\ IsTypingRun(events, i, j)
    /\ ~(i >= 3 /\ IsSpacePress(events[i - 1]) /\ IsTextInput(events[i - 2]))
    /\ ~(j + 2 <= Len(events) /\ IsSpacePress(events[j + 1]) /\ IsTextInput(events[j + 2]))

\* the texts of the run events[i..j]
Fragments(events, i, j) ==
    [k \in 1..((j - i) \div 2 + 1) |-> GetOr(events[i + 2 * (k - 1)].data, "text", <<>>)]

\* the events a merged run accounts for: the run and the space that ends it
MergedCount(events, i, j) ==
    (j - i + 1) + (IF j < Len(events) /\ IsSpacePress(events[j + 1]) THEN 1 ELSE 0)

\* the positions of the simplified events that carry the timestamp ts
OutputsAt(ts) ==
    {q \in 1..Len(simplified_events) : simplified_events[q].timestamp = ts}

\* the position in workflow.steps of the step with this identifier
PositionOf(step_id) ==
    CHOOSE q \in 1..Len(workflow_steps) : workflow_steps[q].step_id = step_id

\* the index in steps of the step with this identifier
IndexOf(step_id) == CHOOSE i \in 1..Len(steps) : steps[i].step_id = step_id

\* the events the correlator gives insert_wait_steps for steps[i] and steps[i+1]
CurrentEvent(i) ==
    _find_step_event(steps[i], SortedByTimestamp(session_events), i - 1)
NextEvent(i) ==
    _find_step_event(steps[i + 1], SortedByTimestamp(session_events), i)
Delta(i) == NextEvent(i)[1].timestamp - CurrentEvent(i)[1].timestamp

\* the simplified events that are not screenshots, in order
ActionEvents ==
    SelectSeq(simplified_events, LAMBDA e : e.event_type # SCREENSHOT)

IsWait(step) == step.action = WAIT

(***************************************************************************)
(* Properties                                                              *)
(***************************************************************************)

\* C1: in every workflow generate_from_events_only returns, every type-text,
\* press-key and key-combination step has no selector.
C1_KeyboardStepsHaveNoSelector ==
    pc = "done" =>
        \A k \in 1..Len(workflow_steps) :
            workflow_steps[k].action \in KeyboardActions
                => workflow_steps[k].selector = <<>>

\* C2: simplifying the simplified events again changes nothing.
C2_SimplifyIdempotent ==
    pc = "simplified" => simplify_actions(simplified_events) = simplified_events

\* C3: every run text, space, text, ..., text of the session comes out as
\* exactly one text-input event: at the timestamp and with the element
\* attributes of the first fragment, its text the fragments joined by single
\* spaces and trimmed, grouped_from the number of events merged into it.
C3_RunMergedIntoOneEvent ==
    pc = "simplified" =>
        \A i, j \in 1..Len(session_events) :
            IsMaximalRun(session_events, i, j) =>
                /\ Cardinality(OutputsAt(session_events[i].timestamp)) = 1
                /\ \A k \in (i + 1)..j : OutputsAt(session_events[k].timestamp) = {}
                /\ \A q \in OutputsAt(session_events[i].timestamp) :
                     LET out   == simplified_events[q]
                         first == session_events[i]
                     IN /\ out.event_type = TEXT_INPUT
                        /\ Get(out.data, "text")
                             = <<Strip(JoinSpace(Fragments(session_events, i, j)))>>
                        /\ Get(out.data, "element_name") = Get(first.data, "element_name")
                        /\ Get(out.data, "element_type") = Get(first.data, "element_type")
                        /\ Get(out.data, "grouped_from")
                             = <<MergedCount(session_events, i, j)>>

\* C4: an event that is neither a text-input nor a key-press of space passes
\* through unchanged, in its place, and ends the run before it: the session
\* simplifies to what is before it simplified, the event, what is after it
\* simplified.
C4_OtherEventsPassThrough ==
    pc = "simplified" =>
        \A p \in 1..Len(session_events) :
            (~IsTextInput(session_events[p]) /\ ~IsSpacePress(session_events[p]))
                => simplified_events =
                     simplify_actions(SubSeq(session_events, 1, p - 1))
                       \o <<session_events[p]>>
                       \o simplify_actions(SubSeq(session_events, p + 1, Len(session_events)))

\* C5: where the correlator finds an event for two consecutive steps, exactly
\* one wait step stands right after the first of them when the events are at
\* least min_wait_threshold apart, and none when they are closer.
C5_WaitExactlyAtLongGaps ==
    pc = "done" =>
        \A i \in 1..(Len(steps) - 1) :
            (CurrentEvent(i) # <<>> /\ NextEvent(i) # <<>>) =>
                LET q    == PositionOf(steps[i].step_id)
                    wait == WaitId(steps[i].step_id)
                IN /\ workflow_steps[q] = steps[i]
                   /\ IF Delta(i) >= min_wait_threshold
                      THEN /\ workflow_steps[q + 1].action = WAIT
                           /\ workflow_steps[q + 1].step_id = wait
                           /\ workflow_steps[q + 2] = steps[i + 1]
                           /\ Cardinality({r \in 1..Len(workflow_steps) :
                                             workflow_steps[r].step_id = wait}) = 1
                      ELSE workflow_steps[q + 1] = steps[i + 1]

\* C5 witness: a gap of exactly the threshold got its wait step, and a gap
\* just below the threshold got none.
C5_Witness ==
    /\ pc = "done"
    /\ Len(steps) = 3
    /\ Delta(1) = min_wait_threshold
    /\ Delta(2) = min_wait_threshold - 2
    /\ Len(workflow_steps) = 4
    /\ IsWait(workflow_steps[2])

\* C6: a wait step lasts min(delta + buffer, max) rounded to one decimal,
\* never more than max_wait_seconds, and records the gap rounded to one
\* decimal, which is at least the threshold.
C6_WaitDurationClamped ==
    pc = "done" =>
        \A q \in 2..Len(workflow_steps) :
            IsWait(workflow_steps[q]) =>
                LET i      == IndexOf(workflow_steps[q - 1].step_id)
                    params == workflow_steps[q].parameters
                IN /\ params.duration_seconds
                        = Round1(Min(Delta(i) + buffer_seconds, max_wait_seconds))
                   /\ params.duration_seconds <= max_wait_seconds
                   /\ params.original_gap = Round1(Delta(i))
                   /\ params.original_gap >= min_wait_threshold

\* C6 witness: one wait of 4.4 s for a gap of 3.4 s and one capped at 10.0 s
\* for a gap of 50 s.
C6_Witness ==
    /\ pc = "done"
    /\ \E q \in 1..Len(workflow_steps) :
          /\ IsWait(workflow_steps[q])
          /\ workflow_steps[q].parameters.original_gap = 340
          /\ workflow_steps[q].parameters.duration_seconds = 440
    /\ \E q \in 1..Len(workflow_steps) :
          /\ IsWait(workflow_steps[q])
          /\ workflow_steps[q].parameters.original_gap = 5000
          /\ workflow_steps[q].parameters.duration_seconds = max_wait_seconds

\* C7: every click, right-click, double-click, drag and scroll step has a
\* selector, and the step keeps that selector through wait insertion.
C7_MouseStepsKeepSelector ==
    /\ pc \in {"synthesized", "done"} =>
          \A k \in 1..Len(workflow_steps) :
              workflow_steps[k].action \in MouseActions
                  => workflow_steps[k].selector # <<>>
    /\ pc = "done" =>
          \A i \in 1..Len(steps) :
              steps[i].action \in MouseActions =>
                  /\ steps[i].selector # <<>>
                  /\ \E q \in 1..Len(workflow_steps) :
                        /\ workflow_steps[q].step_id = steps[i].step_id
                        /\ workflow_steps[q].selector = steps[i].selector

\* C7 witness: a returned workflow in which a wait step follows a scroll or a
\* drag step.
C7_Witness ==
    /\ pc = "done"
    /\ \E q \in 1..(Len(workflow_steps) - 1) :
          /\ workflow_steps[q].action \in {SCROLL_ACT, DRAG}
          /\ IsWait(workflow_steps[q + 1])

\* C8: a drag step has end_x and end_y in its parameters, equal to those of
\* its selector and to those of its event, 0 where the event has none.
C8_DragCarriesEnd ==
    pc \in {"synthesized", "done"} =>
        \A i \in 1..Len(steps) :
            steps[i].action = DRAG =>
                LET params == steps[i].parameters
                    value  == steps[i].selector[1].value
                    data   == ActionEvents[i].data
                IN /\ {"end_x", "end_y"} \subseteq DOMAIN params
                   /\ params.end_x = value.end_x
                   /\ params.end_y = value.end_y
                   /\ params.end_x = GetOr(data, "end_x", 0)
                   /\ params.end_y = GetOr(data, "end_y", 0)
                   /\ workflow_steps[PositionOf(steps[i].step_id)].parameters = params

\* C8 witness: a drag step made from an event without end coordinates, and one
\* made from an event with them.
C8_Witness ==
    /\ pc = "done"
    /\ \E i \in 1..Len(steps) :
          /\ steps[i].action = DRAG
          /\ "end_x" \notin DOMAIN ActionEvents[i].data
          /\ steps[i].parameters.end_x = 0
    /\ \E i \in 1..Len(steps) :
          /\ steps[i].action = DRAG
          /\ "end_x" \in DOMAIN ActionEvents[i].data
          /\ steps[i].parameters.end_y = 4

\* a key name without the prefix Key. and in lower case
IsCanonicalKey(key) == ~StartsWith(key, s_Key_dot) /\ key = Lower(key)

\* C9: the key of every press-key step and every key of every
\* key-combination step has no prefix Key. and is in lower case.
C9_KeyNamesCanonical ==
    pc \in {"synthesized", "done"} =>
        \A k \in 1..Len(workflow_steps) :
            LET step == workflow_steps[k]
            IN /\ step.action = PRESS_KEY => IsCanonicalKey(step.parameters.key)
               /\ step.action = KEY_COMBO =>
                     \A n \in 1..Len(step.parameters.keys) :
                         IsCanonicalKey(step.parameters.keys[n])

\* C10: the identifiers of the returned workflow are pairwise distinct, the
\* synthesized steps are step-1 .. step-k in order, and a wait step is named
\* after the step right before it.
C10_StepIdentifiers ==
    pc = "done" =>
        LET synthesized == SelectSeq(workflow_steps, LAMBDA st : ~IsWait(st))
        IN /\ \A q, r \in 1..Len(workflow_steps) :
                 workflow_steps[q].step_id = workflow_steps[r].step_id => q = r
           /\ \A k \in 1..Len(synthesized) : synthesized[k].step_id = <<"step", k>>
           /\ \A q \in 1..Len(workflow_steps) :
                 IsWait(workflow_steps[q]) =>
                     /\ q > 1
                     /\ ~IsWait(workflow_steps[q - 1])
                     /\ workflow_steps[q].step_id
                          = workflow_steps[q - 1].step_id \o <<"wait">>

\* C10 witness: a returned workflow with a wait step, made from a session
\* whose first event is a screenshot.
C10_Witness ==
    /\ pc = "done"
    /\ Len(session_events) >= 3
    /\ session_events[1].event_type = SCREENSHOT
    /\ Len(steps) >= 2
    /\ \E q \in 1..Len(workflow_steps) : IsWait(workflow_steps[q])

\* C11: after insert_wait_steps has returned, whatever the workflow and the
\* session (a workflow without steps and a session without events included),
\* the metadata hold total_steps, the length of the returned step list, and
\* wait_steps_inserted, that length minus the length of the list handed in.
C11_MetadataCounts ==
    pc = "done" =>
        /\ Get(metadata, "total_steps") = <<Len(workflow_steps)>>
        /\ Get(metadata, "wait_steps_inserted") = <<Len(workflow_steps) - Len(steps)>>

\* the steps of the returned workflow with this identifier
StepsNamed(step_id) ==
    {q \in 1..Len(workflow_steps) : workflow_steps[q].step_id = step_id}

\* C12: where the correlator finds no event for one of two consecutive steps,
\* no wait step is put between them; insert_wait_steps still returns, keeps
\* every step in its place and gives every other pair of steps its wait step
\* when its events are at least min_wait_threshold apart.
C12_NoWaitWithoutCorrelation ==
    pc = "done" =>
        /\ SelectSeq(workflow_steps, LAMBDA st : st.step_id \in {s.step_id : s \in Range(steps)}) = steps
        /\ \A i \in 1..(Len(steps) - 1) :
              LET q == PositionOf(steps[i].step_id)
              IN IF CurrentEvent(i) = <<>> \/ NextEvent(i) = <<>>
                 THEN /\ workflow_steps[q + 1] = steps[i + 1]
                      /\ StepsNamed(WaitId(steps[i].step_id)) = {}
                 ELSE IF session_events # <<>> /\ Delta(i) >= min_wait_threshold
                 THEN /\ workflow_steps[q + 1].step_id = WaitId(steps[i].step_id)
                      /\ workflow_steps[q + 1].action = WAIT
                      /\ workflow_steps[q + 2] = steps[i + 1]
                 ELSE workflow_steps[q + 1] = steps[i + 1]

\* C12 witness: a returned workflow of three steps and two events in which the
\* third step has no event, the second and the third step are adjacent, and a
\* wait step follows the first step.
C12_Witness ==
    /\ pc = "done"
    /\ Len(steps) = 3
    /\ Len(session_events) = 2
    /\ CurrentEvent(1) # <<>> /\ NextEvent(1) # <<>>
    /\ NextEvent(2) = <<>>
    /\ Len(workflow_steps) = 4
    /\ IsWait(workflow_steps[2])
    /\ workflow_steps[4] = steps[3]

\* the steps of the generated workflow as _enrich_workflow receives them
GeneratedSteps == ai_response[1].doc.steps

\* a text selector without a value
IsEmptyTextSelector(selector) ==
    selector # <<>> /\ selector[1].type = "text" /\ Falsy(selector[1].value)

\* the event was recorded at the fallback coordinates of the step
RecordedAtFallback(event, step) ==
    /\ step.selector # <<>>
    /\ step.selector[1].fallback # <<>>
    /\ Get(event.data, "x") # <<>>
    /\ Get(event.data, "y") # <<>>
    /\ Get(event.data, "x") = Get(step.selector[1].fallback[1].value, "x")
    /\ Get(event.data, "y") = Get(step.selector[1].fallback[1].value, "y")

HasElementName(event) ==
    Get(event.data, "element_name") # <<>> /\ Get(event.data, "element_name") # <<<<>>>>

\* C13: after _enrich_workflow, every step whose text selector had no value
\* and for which the session holds an event recorded at the fallback
\* coordinates of the step and with a non-empty element name, has the element
\* name of such an event as the value of its selector.
C13_EmptyTextSelectorRepaired ==
    pc \in {"enriched", "done"} /\ ai_response # <<>> =>
        \A k \in 1..Len(GeneratedSteps) :
            (/\ IsEmptyTextSelector(GeneratedSteps[k].selector)
             /\ \E n \in 1..Len(session_events) :
                   /\ RecordedAtFallback(session_events[n], GeneratedSteps[k])
                   /\ HasElementName(session_events[n]))
            => \E n \in 1..Len(session_events) :
                   /\ RecordedAtFallback(session_events[n], GeneratedSteps[k])
                   /\ HasElementName(session_events[n])
                   /\ steps[k].selector[1].value
                        = StrValue(session_events[n].data.element_name)

\* what _enrich_workflow may change in a step: the value of a text selector
\* that had none, and never to nothing
EnrichedFrom(before, after) ==
    /\ after.step_id = before.step_id
    /\ after.action = before.action
    /\ after.description = before.description
    /\ after.parameters = before.parameters
    /\ IF before.selector = <<>> THEN after.selector = <<>>
       ELSE /\ after.selector # <<>>
            /\ after.selector[1].type = before.selector[1].type
            /\ after.selector[1].fallback = before.selector[1].fallback
            /\ IF IsEmptyTextSelector(before.selector)
               THEN \/ after.selector[1].value = before.selector[1].value
                    \/ ~Falsy(after.selector[1].value)
               ELSE after.selector[1].value = before.selector[1].value

\* C14: _enrich_workflow keeps the number and the order of the steps, every
\* identifier, action, description, parameter mapping and fallback, every
\* selector that is absent, of type coordinates or has a value, and the events
\* of the session; it only gives a value to text selectors that had none.
C14_EnrichChangesOnlyEmptyValues ==
    [][pc = "generated" /\ pc' = "enriched" =>
          /\ session_events' = session_events
          /\ simplified_events' = simplified_events
          /\ metadata' = metadata
          /\ Len(workflow_steps') = Len(workflow_steps)
          /\ \A k \in 1..Len(workflow_steps) :
                EnrichedFrom(workflow_steps[k], workflow_steps'[k])]_vars

\* C14 witness: an enriched workflow in which one text selector got its value
\* from the session, next to a text selector that kept the value it had.
C14_Witness ==
    /\ pc = "enriched"
    /\ \E k \in 1..Len(steps) :
          /\ IsEmptyTextSelector(GeneratedSteps[k].selector)
          /\ steps[k].selector[1].value = StrValue(s_Go)
    /\ \E k \in 1..Len(steps) :
          /\ steps[k].selector # <<>>
          /\ steps[k].selector[1].value = StrValue(s_OK)
          /\ \E n \in 1..Len(session_events) :
                RecordedAtFallback(session_events[n], steps[k])

\* C15: the step of a mouse-click or mouse-double-click event at (x, y) has
\* the selector {text, N, fallback {coordinates, {x, y}}} when the event has a
\* non-empty element name N, and {coordinates, {x, y}} without fallback when
\* it has none.
C15_ClickSelector ==
    pc \in {"synthesized", "done"} =>
        \A i \in 1..Len(steps) :
            LET event == ActionEvents[i]
                point == [x |-> event.data.x, y |-> event.data.y]
            IN (/\ event.event_type \in {MOUSE_CLICK, MOUSE_DOUBLE_CLICK}
                /\ {"x", "y"} \subseteq DOMAIN event.data)
               => steps[i].selector =
                    IF HasElementName(event)
                    THEN <<[type     |-> "text",
                            value    |-> StrValue(event.data.element_name),
                            fallback |-> <<[type |-> "coordinates", value |-> point,
                                            fallback |-> <<>>]>>]>>
                    ELSE <<[type |-> "coordinates", value |-> point, fallback |-> <<>>]>>

\* C15 witness: a workflow with the step of a click on a named element, the
\* step of a click on an element whose name is empty and the step of a
\* double-click on an element without name.
C15_Witness ==
    /\ pc = "done"
    /\ \E i \in 1..Len(steps) :
          /\ ActionEvents[i].event_type = MOUSE_CLICK
          /\ HasElementName(ActionEvents[i])
          /\ steps[i].selector[1].type = "text"
          /\ steps[i].selector[1].fallback # <<>>
    /\ \E i \in 1..Len(steps) :
          /\ ActionEvents[i].event_type = MOUSE_CLICK
          /\ Get(ActionEvents[i].data, "element_name") = <<<<>>>>
          /\ steps[i].selector[1].type = "coordinates"
    /\ \E i \in 1..Len(steps) :
          /\ ActionEvents[i].event_type = MOUSE_DOUBLE_CLICK
          /\ steps[i].selector[1].type = "coordinates"
          /\ steps[i].selector[1].fallback = <<>>

KnownCommands == {"CLICK", "TYPE", "PRESS", "SCROLL", "DRAG", "HOTKEY", "COPY", "PASTE"}

IsStop(action)          == Get(action, "command") = <<"STOP">>
HasKnownCommand(action) == "command" \in DOMAIN action /\ action.command \in KnownCommands
HasTimestamp(action)    == "timestamp" \in DOMAIN action

\* the timestamp of the action parses once its stray M is taken out
ParsesAfterRepair(action) ==
    /\ HasTimestamp(action)
    /\ fromisoformat(IsoText(RepairedTimestamp(action.timestamp))) # <<>>

\* the actions of the recording that are to become events, in input order
ValidActions ==
    SelectSeq(friend_actions,
              LAMBDA a : ~IsStop(a) /\ HasKnownCommand(a) /\ ParsesAfterRepair(a))

\* the session holds one event for each of these actions, in their order
EventsAreOf(actions) ==
    /\ Len(session_events) = Len(actions)
    /\ \A k \in 1..Len(actions) :
          /\ <<session_events[k].event_type>>
               = map_command_to_event_type(Get(actions[k], "command"))
          /\ session_events[k].timestamp
               = fromisoformat(IsoText(RepairedTimestamp(actions[k].timestamp)))[1]
          /\ actions[k].timestamp = s_time_stray
               => session_events[k].timestamp = fromisoformat(s_time_clean)[1]
          /\ \A f \in DOMAIN GetOr(actions[k], "parameters", EmptyDict) \ {"button", "key"} :
                f \in DOMAIN session_events[k].data
                /\ session_events[k].data[f] = actions[k].parameters[f]

\* C16: the session convert_friend_format returns holds one event, in input
\* order, for every action that is not STOP, has a known command and has a
\* timestamp that parses after repair, and no other event; a timestamp with a
\* stray M before a colon is repaired and its event kept.
C16_SkipsExactlyTheUnusable ==
    pc = "converted" =>
        /\ EventsAreOf(ValidActions)
        /\ \A k \in 1..Len(friend_actions) :
              (/\ Get(friend_actions[k], "timestamp") = <<s_time_stray>>
               /\ ~IsStop(friend_actions[k])
               /\ HasKnownCommand(friend_actions[k]))
                  => \E n \in 1..Len(session_events) :
                        session_events[n].timestamp = fromisoformat(s_time_clean)[1]

\* C16 witness: a returned session of one event, the one with the repaired
\* timestamp, from a recording that also has an action with a timestamp that
\* does not parse and an action that is STOP or of unknown command.
C16_Witness ==
    /\ pc = "converted"
    /\ Len(friend_actions) = 3
    /\ \E i, j, k \in 1..3 :
          /\ friend_actions[i] = FriendTypeStray
          /\ friend_actions[j] = FriendPressBadTime
          /\ friend_actions[k] \in {FriendStop, FriendHover}
    /\ Len(session_events) = 1
    /\ session_events[1].event_type = TEXT_INPUT
    /\ warnings = <<s_time_bad>>

\* the actions that lack a required field or have a timestamp that does not
\* parse: the ones to skip with a warning
MalformedActions ==
    SelectSeq(friend_actions,
              LAMBDA a : ~IsStop(a) /\ HasKnownCommand(a) /\ ~ParsesAfterRepair(a))

\* the start time of the metadata is one fromisoformat reads (line 83)
StartTimeParses ==
    fromisoformat(IsoText(GetOr(friend_metadata, "startTimeFormatted", s_now))) # <<>>

\* C17: an action without a required field (without timestamp) is handled
\* like one with a bad timestamp: convert_friend_format skips it, warns, goes
\* on and returns a session with the events of all valid actions; stated for
\* the recordings whose metadata hold a start time that parses.
C17_MissingFieldSkipped ==
    (pc # "recording" /\ StartTimeParses) =>
        /\ pc = "converted"
        /\ raised = <<>>
        /\ EventsAreOf(ValidActions)
        /\ Len(warnings) = Len(MalformedActions)

\* the exceptions of the libraries: json.JSONDecodeError, pydantic.ValidationError
LibraryErrors == {"JSONDecodeError", "ValidationError"}

\* the text of the response holds a complete JSON object, whatever is around it
HoldsJsonObject(text) == Contains(<<JsonObject>>, text)

\* C18: a response whose extracted JSON does not parse or lacks required
\* fields ends generate_from_session with an error of a kind of the domain
\* that carries the raw text of the response, without workflow, enrichment or
\* wait insertion; a response whose JSON object is fenced or has prose around
\* it is parsed.
C18_ParseFailureIsDomainError ==
    ai_response # <<>> =>
        LET response == ai_response[1]
        IN IF HoldsJsonObject(response.text) /\ WorkflowIsValid(response.doc)
           THEN pc # "error" /\ raised = <<>>
           ELSE /\ pc = "error"
                /\ raised # <<>>
                /\ raised[1].kind \notin LibraryErrors
                /\ raised[1].doc = response.text
                /\ workflow_steps = <<>>
                /\ \A n \in 1..Len(stages) : stages[n] \notin {"enrich", "insert_waits"}

\* s is the beginning of t
\* C19 as stated: every compilation runs simplify, then step synthesis or the
\* generative path, then wait insertion, then enrichment, from either entry
\* point.
C19_StagesEndWithEnrichment ==
    pc = "done" =>
        stages \in {<<"simplify", "synthesize", "insert_waits", "enrich">>,
                    <<"simplify", "generate", "insert_waits", "enrich">>}

\* C20: for every two consecutive steps that both have a correlated event,
\* the event of the later step is not earlier than the event of the earlier
\* step: the time delta insert_wait_steps computes is not negative.
C20_DeltaNonNegative ==
    pc = "done" =>
        \A i \in 1..(Len(steps) - 1) :
            (CurrentEvent(i) # <<>> /\ NextEvent(i) # <<>>) => Delta(i) >= 0

\* the sorted events insert_wait_steps hands the correlator
SortedEvents == SortedByTimestamp(session_events)

\* the positions of the sorted events the kind-specific test of the step accepts
Hits(step) == {k \in 1..Len(SortedEvents) : KindMatch(step, SortedEvents[k])}

\* what the correlator returns for steps[i]
Correlated(i) == _find_step_event(steps[i], SortedEvents, i - 1)

\* C21: the correlator returns an event its kind-specific test accepts
\* whenever there is one, also when the event at the step's own index is not
\* one; it returns the event at the step's own index exactly when no event is
\* accepted and that index exists, and nothing only when no event is accepted
\* and the index is out of range.
C21_PositionalOnlyWithoutMatch ==
    pc \in {"synthesized", "enriched", "done"} =>
        \A i \in 1..Len(steps) :
            IF Hits(steps[i]) # {}
            THEN /\ Correlated(i) # <<>>
                 /\ \E k \in Hits(steps[i]) : Correlated(i) = <<SortedEvents[k]>>
            ELSE IF i <= Len(SortedEvents)
            THEN Correlated(i) = <<SortedEvents[i]>>
            ELSE Correlated(i) = <<>>

\* C21 witness: one step is correlated by its kind to an event that is not at
\* its own index, another, which no event matches, by its position, and a
\* third, beyond the last event, to nothing.
C21_Witness ==
    /\ pc = "done"
    /\ \E i \in 1..Len(steps) :
          /\ Hits(steps[i]) # {}
          /\ i \notin Hits(steps[i])
          /\ i <= Len(SortedEvents)
    /\ \E i \in 1..Len(steps) :
          /\ Hits(steps[i]) = {}
          /\ i <= Len(SortedEvents)
          /\ Correlated(i) = <<SortedEvents[i]>>
    /\ \E i \in 1..Len(steps) :
          /\ Hits(steps[i]) = {}
          /\ Correlated(i) = <<>>

\* the keys of a combination name Ctrl and the letter, the letter spelled as
\* the character or as the control character the recorder saw
IsCtrlWith(keys, letter, raw) ==
    /\ \E i \in 1..Len(keys) : Contains(s_ctrl, Lower(keys[i]))
    /\ \E j \in 1..Len(keys) : Lower(keys[j]) \in {letter, raw}

IsCopy(keys)  == IsCtrlWith(keys, s_c, s_x03)
IsPaste(keys) == IsCtrlWith(keys, s_v, s_x16)

\* C22: the kind-specific test accepts a key-combination event for a Ctrl+C
\* step only if the event is Ctrl+C, and for a Ctrl+V step only if the event
\* is Ctrl+V.
C22_CopyAndPasteDistinguished ==
    pc \in {"synthesized", "done"} =>
        \A i \in 1..Len(steps) :
            steps[i].action = KEY_COMBO =>
                \A k \in Hits(steps[i]) :
                    LET step_keys  == GetOr(steps[i].parameters, "keys", <<>>)
                        event_keys == GetOr(SortedEvents[k].data, "keys", <<>>)
                    IN /\ IsCopy(step_keys)  => IsCopy(event_keys)
                       /\ IsPaste(step_keys) => IsPaste(event_keys)

\* the reason a wait step gives, as written in its description
ReasonOf(wait) == wait.description[1].tpl

\* the reason the documentation gives for a wait after a key combination
ShortcutReason(keys) ==
    IF IsCopy(keys) THEN "copy operation"
    ELSE IF IsPaste(keys) THEN "paste operation"
    ELSE "keyboard shortcut"

\* the element name of the event names no search or address field
NamesNoSearchField(event) ==
    LET name == Lower(GetOr(event.data, "element_name", <<>>))
    IN ~Contains(s_search, name) /\ ~Contains(s_address, name)

\* C23: a wait step that follows a key combination without a search or
\* address element waits for "copy operation" exactly when the combination is
\* Ctrl+C, for "paste operation" exactly when it is Ctrl+V, and for
\* "keyboard shortcut" after every other combination.
C23_ShortcutReason ==
    pc = "done" =>
        \A q \in 2..Len(workflow_steps) :
            IsWait(workflow_steps[q]) =>
                LET current_event == CurrentEvent(IndexOf(workflow_steps[q - 1].step_id))[1]
                IN (current_event.event_type = KEY_COMBINATION
                      /\ NamesNoSearchField(current_event))
                   => ReasonOf(workflow_steps[q])
                        = "Wait {}s for "
                            \o ShortcutReason(GetOr(current_event.data, "keys", <<>>))

\* a key-press of Enter, with or without the Key. prefix of the recorder
IsEnterPress(event) ==
    /\ event.event_type = KEY_PRESS
    /\ Lower(Replace(GetOr(event.data, "key", <<>>), s_Key_dot, <<>>)) = s_enter

\* the reason the priority order of the claim gives for a wait after an
\* event: Enter, search or address element, click, drag, and "action to
\* complete" for every event that is left
ReasonByPriority(event) ==
    LET name == Lower(GetOr(event.data, "element_name", <<>>))
        type == Lower(GetOr(event.data, "element_type", <<>>))
    IN IF IsEnterPress(event) THEN "page load and navigation"
       ELSE IF ~NamesNoSearchField(event) THEN "search results to load"
       ELSE IF event.event_type = MOUSE_CLICK
       THEN IF Contains(s_tab, name) THEN "new tab to open"
            ELSE IF Contains(s_button, type) \/ Contains(s_link, type)
            THEN "page load after click"
            ELSE IF Contains(s_window, name) THEN "window to open"
            ELSE "UI response"
       ELSE IF event.event_type = MOUSE_DRAG THEN "text selection"
       ELSE "action to complete"

\* the event before the wait step at position q of workflow.steps
EventBeforeWait(q) == CurrentEvent(IndexOf(workflow_steps[q - 1].step_id))[1]

\* the reasons of the rules for key combinations (lines 284-291)
ShortcutReasons == {"copy operation", "paste operation", "keyboard shortcut"}

\* C24 as stated: the reason of a wait step follows the priority order, the
\* first rule that applies to the event before it: Enter gives "page load and
\* navigation" whatever the element; else a search or address element gives
\* "search results to load" whatever the kind of the event; else a click
\* gives one of its four reasons, tab before button/link before window; a
\* drag gives "text selection"; every event that is left gives "action to
\* complete".
C24_ReasonByPriority ==
    pc = "done" =>
        \A q \in 2..Len(workflow_steps) :
            IsWait(workflow_steps[q])
                => ReasonOf(workflow_steps[q])
                     = "Wait {}s for " \o ReasonByPriority(EventBeforeWait(q))

\* C24 amended: as C24 states, except that a key combination on an element
\* that names no search or address field gives one of the reasons of the
\* rules for key combinations, which stand between the click rules and the
\* drag rule; a key combination on a search or address field gives "search
\* results to load" like any other event.
C24_ReasonByPriorityWithShortcuts ==
    pc = "done" =>
        \A q \in 2..Len(workflow_steps) :
            IsWait(workflow_steps[q]) =>
                IF /\ EventBeforeWait(q).event_type = KEY_COMBINATION
                   /\ NamesNoSearchField(EventBeforeWait(q))
                THEN \E reason \in ShortcutReasons :
                        ReasonOf(workflow_steps[q]) = "Wait {}s for " \o reason
                ELSE ReasonOf(workflow_steps[q])
                       = "Wait {}s for " \o ReasonByPriority(EventBeforeWait(q))

\* C24 witness: a wait after a key combination made in a search field, where
\* the rule for search fields and a rule for key combinations both apply and
\* the first one gives the reason.
C24_Witness ==
    /\ pc = "done"
    /\ \E q \in 2..Len(workflow_steps) :
          /\ IsWait(workflow_steps[q])
          /\ EventBeforeWait(q).event_type = KEY_COMBINATION
          /\ ~NamesNoSearchField(EventBeforeWait(q))
          /\ ReasonOf(workflow_steps[q]) = "Wait {}s for search results to load"

\* the action the documentation gives the step of an event
ActionOfEvent(event) ==
    CASE event.event_type = MOUSE_CLICK ->
            (IF Get(event.data, "button") = <<"right">> THEN RIGHT_CLICK ELSE CLICK)
      [] event.event_type = MOUSE_DOUBLE_CLICK -> DOUBLE_CLICK
      [] event.event_type = MOUSE_DRAG         -> DRAG
      [] event.event_type = SCROLL             -> SCROLL_ACT
      [] event.event_type = TEXT_INPUT         -> TYPE_TEXT
      [] event.event_type = KEY_PRESS          -> PRESS_KEY
      [] event.event_type = KEY_COMBINATION    -> KEY_COMBO
      [] event.event_type = NAVIGATION         -> NAVIGATE

\* C25: once the steps are synthesized there is exactly one step for each
\* simplified event that is no screenshot, in the order of the events,
\* numbered without gaps, with the action of the event's kind (right-click
\* exactly for a mouse-click with the right button).
C25_OneStepPerActionEvent ==
    "synthesize" \in Range(stages) =>
        /\ pc \in {"synthesized", "done"}
        /\ Len(steps) = Len(ActionEvents)
        /\ \A k \in 1..Len(steps) :
              /\ steps[k].action = ActionOfEvent(ActionEvents[k])
              /\ steps[k].step_id = StepId(k)

MouseClickKinds == {MOUSE_CLICK, MOUSE_DOUBLE_CLICK}

\* what _generate_description returns for the step of a click event
DescriptionOf(event) ==
    _generate_description(ActionOfEvent(event), ElementName(event.data),
                          ElementType(event.data), event.data)

\* C26: _generate_description returns a description, never None, for the
\* step of every mouse-click and mouse-double-click event, whatever the
\* element name and type.
C26_MouseDescriptionTotal ==
    \A k \in 1..Len(simplified_events) :
        simplified_events[k].event_type \in MouseClickKinds
            => DescriptionOf(simplified_events[k]) # <<>>

\* the time of the event steps[i] was synthesized from: the simplified event,
\* which for a merged text entry carries the time of its first fragment
SourceTime(i) == ActionEvents[i].timestamp

\* a wait step stands right after steps[i] in workflow.steps
WaitFollows(i) ==
    LET q == PositionOf(steps[i].step_id)
    IN q < Len(workflow_steps) /\ IsWait(workflow_steps[q + 1])

\* C27: on the deterministic path the correlator attributes to every step the
\* event the step was synthesized from, so a wait step follows a step exactly
\* when the next step's source event comes at least min_wait_threshold after
\* its own.
C27_StepCorrelatedToItsSource ==
    (pc = "done" /\ "synthesize" \in Range(stages)) =>
        /\ \A i \in 1..Len(steps) :
              /\ Correlated(i) # <<>>
              /\ Correlated(i)[1].timestamp = SourceTime(i)
        /\ \A i \in 1..(Len(steps) - 1) :
              WaitFollows(i) <=> SourceTime(i + 1) - SourceTime(i) >= min_wait_threshold

\* C28: insert_wait_steps keeps every step of its input, unmodified and in
\* order; each wait step it inserts stands between two steps of the input,
\* right after the one whose identifier it suffixes, and has no selector: so
\* there is at most one wait per boundary, no two waits are adjacent, and
\* none stands first or last.
C28_WaitsInterleaved ==
    pc = "done" =>
        /\ SelectSeq(workflow_steps, LAMBDA step : ~IsWait(step)) = steps
        /\ \A q \in 1..Len(workflow_steps) :
              IsWait(workflow_steps[q]) =>
                  /\ 1 < q /\ q < Len(workflow_steps)
                  /\ ~IsWait(workflow_steps[q - 1])
                  /\ ~IsWait(workflow_steps[q + 1])
                  /\ workflow_steps[q].step_id = WaitId(workflow_steps[q - 1].step_id)
                  /\ workflow_steps[q].selector = <<>>

\* C28 witness: three steps came back with a wait after the first and none
\* after the second.
C28_Witness ==
    /\ pc = "done"
    /\ Len(steps) = 3
    /\ Len(workflow_steps) = 4
    /\ IsWait(workflow_steps[2])
    /\ workflow_steps[3] = steps[2]
    /\ workflow_steps[4] = steps[3]

\* an event group_typing_sequences has merged from several
IsMerged(event) == "grouped_from" \in DOMAIN event.data

\* the number of input events the output events account for: grouped_from
\* for a merged event, one for any other
RECURSIVE Accounted(_)
Accounted(events) ==
    IF events = <<>> THEN 0
    ELSE (IF IsMerged(events[1]) THEN events[1].data.grouped_from ELSE 1)
           + Accounted(Tail(events))

NonDecreasing(events) ==
    \A k \in 1..(Len(events) - 1) : events[k].timestamp <= events[k + 1].timestamp

\* each pass of the outer loop that starts at a text-input moves i forward,
\* and never past the end of the events
LoopAdvances(events) ==
    \A i \in 0..(Len(events) - 1) :
        events[i + 1].event_type = TEXT_INPUT =>
            LET run == CollectRun(events, i, <<>>)
            IN i < run.j /\ run.j <= Len(events)

\* C29: group_typing_sequences comes to its end (every pass of its loop moves
\* forward), leaves the events it was given as they were, and accounts for
\* each of them exactly once: the number of events that came in is the number
\* of unmerged events that come out plus the sum of grouped_from over the
\* merged ones; so no more events come out than came in, and they come out in
\* non-decreasing order of time when they came in so.
C29_EveryEventAccountedOnce ==
    [][(pc = "recording" /\ pc' = "simplified") =>
          /\ LoopAdvances(session_events)
          /\ session_events' = session_events
          /\ Accounted(simplified_events') = Len(session_events)
          /\ Len(simplified_events') <= Len(session_events)
          /\ NonDecreasing(session_events) => NonDecreasing(simplified_events')]_vars

\* C29 witness: five events came out as two, a merged one that accounts for
\* four of them and one passed through.
C29_Witness ==
    /\ pc = "simplified"
    /\ Len(session_events) = 5
    /\ Len(simplified_events) = 2
    /\ \E k \in 1..2 : /\ IsMerged(simplified_events[k])
                        /\ simplified_events[k].data.grouped_from = 4
    /\ \E k \in 1..2 : ~IsMerged(simplified_events[k])

\* the orders in which session.events can hold the same events
Orderings(events) ==
    LET n == Len(events)
    IN {[k \in 1..n |-> events[p[k]]] :
          p \in {f \in [1..n -> 1..n] : \A a, b \in 1..n : a # b => f[a] # f[b]}}

\* the positions of the events the kind-specific test of the step accepts
MatchesIn(step, events) == {k \in 1..Len(events) : KindMatch(step, events[k])}

\* C30, as claimed: when an event satisfies the kind-specific test of a step,
\* the correlator returns the same event whatever the step's index and
\* whatever the order of session.events.
C30_CorrelationIgnoresOrder ==
    pc \in {"synthesized", "done"} =>
        \A i \in 1..Len(steps) :
            Hits(steps[i]) # {} =>
                \A events \in Orderings(session_events) :
                    \A step_index \in 0..Len(steps) :
                        _find_step_event(steps[i], SortedByTimestamp(events), step_index)
                            = Correlated(i)

\* C30, amended: when an event satisfies the kind-specific test of a step,
\* the correlator returns, whatever the step's index, a matching event with
\* the earliest timestamp, and among the matching events with that timestamp
\* the one that comes first in session.events.
C30_EarliestMatchFirstInSession ==
    pc \in {"synthesized", "done"} =>
        \A i \in 1..Len(steps) :
            \A events \in Orderings(session_events) :
                \A step_index \in 0..Len(steps) :
                    LET matches == MatchesIn(steps[i], events)
                        found   == _find_step_event(steps[i], SortedByTimestamp(events),
                                                    step_index)
                    IN matches # {} =>
                         \E k \in matches :
                             /\ found = <<events[k]>>
                             /\ \A h \in matches :
                                   \/ events[k].timestamp < events[h].timestamp
                                   \/ /\ events[k].timestamp = events[h].timestamp
                                      /\ \/ k <= h
                                         \/ events[k] = events[h]

\* C30 witness: two different events at the same time match a step, which is
\* correlated to the one that comes first in the session; and a step is
\* correlated to an event that is the earliest in time but not the first
\* listed of its matches.
C30_Witness ==
    /\ pc = "done"
    /\ \E i \in 1..Len(steps) :
          \E k, h \in MatchesIn(steps[i], session_events) :
              /\ k < h
              /\ session_events[k].timestamp = session_events[h].timestamp
              /\ session_events[k] # session_events[h]
              /\ Correlated(i) = <<session_events[k]>>
    /\ \E i \in 1..Len(steps) :
          \E k, h \in MatchesIn(steps[i], session_events) :
              /\ k < h
              /\ session_events[h].timestamp < session_events[k].timestamp
              /\ Correlated(i) = <<session_events[h]>>

====
